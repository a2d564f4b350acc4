--------------------------- MODULE SessionProofs ---------------------------
(***************************************************************************)
(* The session of SessionRuntime for every agent graph, every set of tools *)
(* and every bound.  The first part is about its types and control stack:  *)
(* a session always has an owner, the root agent is at the bottom of its   *)
(* frames and nowhere else, and no handler builds a malformed session.     *)
(*                                                                         *)
(* TypeOK is not inductive: the target of a handoff is pushed as a frame   *)
(* when its task ends, and a return pops one.  What makes both safe was    *)
(* decided earlier, when the call was offered and when the unit ran, so the*)
(* invariant carries it along in the calls and units of every task.        *)
(*                                                                         *)
(* The second part is what every session keeps, whichever handler,         *)
(* rollback, load or crash it comes from: an input has one place, a paused *)
(* task awaits exactly one response, a confirmed tool was approved, and the*)
(* history explains the frames.                                            *)
(*                                                                         *)
(* A handler changes a session in one of four ways: it advances a task,    *)
(* pauses one, closes one, or pops an input.  The argument has three parts.*)
(* Each way keeps a session orderly; each handler is one of the four ways; *)
(* a load, a clean-up and a rollback only go back to, or take tasks from,  *)
(* sessions that were orderly already.                                     *)
(***************************************************************************)
EXTENDS SessionLedger, SequenceTheorems, FiniteSetTheorems, TLAPS

\* A handoff goes to an agent other than the root.
GoodTarget(c) == c.tool = "handoff" => c.target \in Agents \ {Root}

\* A return that succeeded ran in another agent than the root.
GoodUnit(owner, u) == GoodTarget(u) /\ (u.tool = "return" /\ u.ok => owner # Root)

GoodTask(t) ==
  /\ \A i \in DOMAIN t.calls : GoodTarget(t.calls[i])
  /\ \A k \in DOMAIN t.units : GoodUnit(t.owner, t.units[k])
  /\ t.kind = "TOOL" => Len(t.units) > 0

GoodFrames(s) == s.frames # <<>> /\ \A i \in DOMAIN s.frames : s.frames[i] = Root <=> i = 1

\* A session the runtime can work on, and one the store can hold.
Sound(s) == s \in Session /\ GoodFrames(s) /\ \A t \in s.tasks : GoodTask(t)

Stable(s) == s = NewSession \/ Sound(s)

Scalars ==
  /\ rtQueue \in Seq(Input)
  /\ pc \in {"idle", "starting", "loop", "saving", "finishing"}
  /\ nextInput \in Nat \ {0} /\ nextReq \in Nat \ {0}
  /\ approved \subseteq Nat
  /\ used \in [runs : Nat, rounds : Nat, faults : Nat, crashes : Nat]

\* The inductive invariant.
IInv ==
  /\ Scalars
  /\ Stable(live) /\ Stable(last) /\ Stable(stored)
  /\ pc # "idle" => Sound(live) /\ Sound(last)

-----------------------------------------------------------------------------
(* The operators on sessions keep a session sound.                          *)

\* A new queue, history, set of tasks or stack of frames keeps a session sound
\* when it is well formed itself.
LEMMA WithQueue ==
  ASSUME NEW s, Sound(s), NEW queue \in Seq(Input)
  PROVE  Sound([s EXCEPT !.queue = queue])
BY DEF Sound, Session, GoodFrames

LEMMA WithHistory ==
  ASSUME NEW s, Sound(s), NEW history \in Seq(Artifact)
  PROVE  Sound([s EXCEPT !.history = history])
BY DEF Sound, Session, GoodFrames

LEMMA WithTasks ==
  ASSUME NEW s, Sound(s), NEW tasks \in SUBSET Task, \A t \in tasks : GoodTask(t)
  PROVE  Sound([s EXCEPT !.tasks = tasks])
BY DEF Sound, Session, GoodFrames

LEMMA WithFrames ==
  ASSUME NEW s, Sound(s), NEW frames \in Seq(Agents), frames # <<>>,
         \A i \in DOMAIN frames : frames[i] = Root <=> i = 1
  PROVE  Sound([s EXCEPT !.frames = frames])
BY DEF Sound, Session, GoodFrames

\* A task that is put in place of an older one, or added, when it is good itself.
LEMMA PutTaskSound ==
  ASSUME NEW s, Sound(s), NEW t \in Task, GoodTask(t)
  PROVE  Sound(PutTask(s, t))
BY DEF Sound, Session, GoodFrames, PutTask

\* Removing a task keeps the session sound.
LEMMA DropTaskSound ==
  ASSUME NEW s, Sound(s), NEW t
  PROVE  Sound(DropTask(s, t))
BY DEF Sound, Session, GoodFrames, DropTask

\* An artifact appended to the history keeps the session sound.
LEMMA LogSound ==
  ASSUME NEW s, Sound(s), NEW t \in Task, NEW kind \in {"done", "paused", "push", "pop"}
  PROVE  Sound(Log(s, kind, t))
<1> DEFINE artifact == [kind |-> kind, task |-> Id(t)]
<1>1. artifact \in Artifact
  BY DEF Artifact, Id, Task, Input
<1> HIDE DEF artifact
<1>2. Append(s.history, artifact) \in Seq(Artifact)
  BY <1>1 DEF Sound, Session
<1> QED BY <1>2, WithHistory DEF Log, artifact

\* So does the history of a task.
LEMMA SaveTaskHistorySound ==
  ASSUME NEW s, Sound(s), NEW t \in Task
  PROVE  Sound(SaveTaskHistory(s, t))
BY LogSound DEF SaveTaskHistory

\* An input appended to the queue keeps the session sound.
LEMMA EnqueueSound ==
  ASSUME NEW s, Sound(s), NEW in \in Input
  PROVE  Sound(Enqueue(s, in))
<1>1. Append(s.queue, in) \in Seq(Input)
  BY DEF Sound, Session
<1> QED BY <1>1, WithQueue DEF Enqueue

\* Taking an input off the queue leaves a queue of inputs.
LEMMA WithoutType ==
  ASSUME NEW q \in Seq(Input), NEW id
  PROVE  Without(q, id) \in Seq(Input)
<1>1. CASE \E i \in DOMAIN q : q[i].id = id
  <2> DEFINE i == CHOOSE j \in DOMAIN q : q[j].id = id
  <2>1. i \in 1..Len(q)
    BY <1>1
  <2>2. Without(q, id) = SubSeq(q, 1, i - 1) \o SubSeq(q, i + 1, Len(q))
    BY <1>1 DEF Without
  <2> HIDE DEF i
  <2>3. SubSeq(q, 1, i - 1) \in Seq(Input)
    BY <2>1, SubSeqProperties
  <2>4. SubSeq(q, i + 1, Len(q)) \in Seq(Input)
    BY <2>1, SubSeqProperties
  <2> QED BY <2>2, <2>3, <2>4
<1>2. CASE ~ \E i \in DOMAIN q : q[i].id = id
  BY <1>2 DEF Without
<1> QED BY <1>1, <1>2

LEMMA DequeueSound ==
  ASSUME NEW s, Sound(s), NEW in
  PROVE  Sound(Dequeue(s, in))
<1>1. Without(s.queue, in.id) \in Seq(Input)
  BY WithoutType DEF Sound, Session
<1> QED BY <1>1, WithQueue DEF Dequeue

\* The end of a run keeps the session sound.
LEMMA CleanStateSound ==
  ASSUME NEW s, Sound(s)
  PROVE  Sound(CleanState(s))
<1> DEFINE kept == {t \in s.tasks : t.owner = Top(s) => t.status = "PAUSED"}
           cleared == [s EXCEPT !.queue = <<>>]
<1>1. kept \in SUBSET Task /\ \A t \in kept : GoodTask(t)
  BY DEF Sound, Session
<1>2. Sound(cleared)
  <2>1. <<>> \in Seq(Input)
    OBVIOUS
  <2> QED BY <2>1, WithQueue
<1>3. CleanState(s) = [cleared EXCEPT !.tasks = kept]
  BY DEF CleanState, Sound, Session
<1> HIDE DEF kept, cleared
<1> QED BY <1>1, <1>2, <1>3, WithTasks

\* An empty stack is sent back to the root.
LEMMA SanitizeFramesSound ==
  ASSUME NEW s, Stable(s)
  PROVE  Sound(SanitizeFrames(s))
<1>1. CASE s = NewSession
  <2>1. SanitizeFrames(s) = [frames |-> <<Root>>, queue |-> <<>>, tasks |-> {},
                             history |-> <<>>]
    BY <1>1 DEF SanitizeFrames, NewSession
  <2>2. /\ <<Root>> \in Seq(Agents) /\ <<Root>> # <<>>
        /\ \A i \in DOMAIN <<Root>> : <<Root>>[i] = Root <=> i = 1
    BY RootIsAgent
  <2>3. <<>> \in Seq(Input) /\ <<>> \in Seq(Artifact)
    OBVIOUS
  <2> QED BY <2>1, <2>2, <2>3 DEF Sound, Session, GoodFrames
<1>2. CASE Sound(s)
  BY <1>2 DEF SanitizeFrames, Sound, GoodFrames
<1> QED BY <1>1, <1>2 DEF Stable

\* A stored session that is loaded is sound, the empty one of a new session too.
LEMMA LoadSessionSound ==
  ASSUME NEW s, Stable(s), NEW resume \in BOOLEAN
  PROVE  Sound(LoadSession(s, resume))
<1>1. ASSUME NEW r, Sound(r) PROVE Sound(KeepRecentPaused(r))
  BY <1>1 DEF KeepRecentPaused, Sound, Session, GoodFrames
<1> QED BY <1>1, SanitizeFramesSound, CleanStateSound DEF LoadSession

-----------------------------------------------------------------------------
(* Calls, units and tasks.                                                  *)

\* The owner of a sound session is an agent, and the root agent is in its stack.
LEMMA TopIsAgent ==
  ASSUME NEW s, Sound(s)
  PROVE  Top(s) \in Agents /\ Root \in FrameAgents(s)
<1>1. s.frames \in Seq(Agents) /\ Len(s.frames) \in Nat /\ Len(s.frames) > 0
  BY DEF Sound, Session, GoodFrames
<1>2. Len(s.frames) \in DOMAIN s.frames /\ 1 \in DOMAIN s.frames
  BY <1>1
<1> QED BY <1>1, <1>2 DEF Top, FrameAgents, Sound, GoodFrames

\* Whatever the model may answer is a list of calls, and none of them hands off to
\* the root agent, which is in every stack.
LEMMA MessagesGood ==
  ASSUME Sound(live), nextReq \in Nat, NEW noTools, NEW calls \in Messages(live, noTools)
  PROVE  calls \in Seq(Call) /\ \A i \in DOMAIN calls : GoodTarget(calls[i])
<1> DEFINE Good == {c \in Call : GoodTarget(c)}
<1>1. AvailableCalls(live) \subseteq Good
  <2>1. ASSUME NEW tool \in ToolKinds \ {"handoff"} PROVE PlainCall(tool) \in Good
    BY <2>1 DEF PlainCall, Call, GoodTarget, ToolKinds
  <2>2. ASSUME NEW a \in Handoffs[Top(live)] \ FrameAgents(live)
        PROVE  [tool |-> "handoff", target |-> a, req |-> 0] \in Good
    BY <2>2, TopIsAgent, HandoffsIsGraph DEF Call, GoodTarget, ToolKinds
  <2>3. ASSUME NEW r \in 1..(nextReq - 1)
        PROVE  [tool |-> "resume", target |-> NoAgent, req |-> r] \in Good
    BY <2>3 DEF Call, GoodTarget, ToolKinds
  <2> QED BY <2>1, <2>2, <2>3 DEF AvailableCalls, ToolKinds
<1>2. calls \in Seq(Good)
  <2>1. CASE calls = <<>>
    BY <2>1
  <2>2. ASSUME NEW c \in AvailableCalls(live), calls = <<c>> PROVE calls \in Seq(Good)
    BY <1>1, <2>2
  <2>3. ASSUME NEW c \in AvailableCalls(live), NEW d \in AvailableCalls(live),
               calls = <<c, d>>
        PROVE  calls \in Seq(Good)
    BY <1>1, <2>3
  <2> QED BY <2>1, <2>2, <2>3 DEF Messages
<1>3. calls \in Seq(Call)
  BY <1>2
<1> QED BY <1>2, <1>3

\* A pending unit that is no return can be run by any agent.
LEMMA NewUnitGood ==
  ASSUME NEW tool \in ToolKinds \cup {"hitl", "llm"}, NEW target \in Agents \cup {NoAgent},
         NEW req \in Nat, tool = "handoff" => target \in Agents \ {Root}
  PROVE  /\ NewUnit(tool, target, req) \in Unit
         /\ \A owner : GoodUnit(owner, NewUnit(tool, target, req))
BY DEF NewUnit, Unit, GoodUnit, GoodTarget

GoodUnits == {u \in Unit : \A owner \in Agents : GoodUnit(owner, u)}

LEMMA UnitsOfCallGood ==
  ASSUME NEW c \in Call, GoodTarget(c)
  PROVE  UnitsOfCall(c) \in Seq(GoodUnits) /\ Len(UnitsOfCall(c)) > 0
<1>1. NewUnit("hitl", NoAgent, 0) \in GoodUnits /\ NewUnit("confirm", NoAgent, 0) \in GoodUnits
  BY NewUnitGood DEF GoodUnits, ToolKinds
<1>2. NewUnit(c.tool, c.target, c.req) \in GoodUnits
  BY NewUnitGood DEF GoodUnits, Call, GoodTarget
<1> QED BY <1>1, <1>2 DEF UnitsOfCall

LEMMA LLMUnitGood ==
  ASSUME NEW c \in Call
  PROVE  LLMUnit(c) \in GoodUnits
BY DEF LLMUnit, NewUnit, Unit, GoodUnits, GoodUnit, GoodTarget

\* The units built from the calls of a message.
LEMMA BuildUnitsGood ==
  ASSUME NEW calls \in Seq(Call), calls # <<>>, \A i \in DOMAIN calls : GoodTarget(calls[i])
  PROVE  BuildUnits(calls) \in Seq(GoodUnits) /\ Len(BuildUnits(calls)) > 0
<1> DEFINE close(c) == IF ChangesControl(c) THEN <<>> ELSE <<LLMUnit(c)>>
<1>1. 1 \in DOMAIN calls /\ Len(calls) \in DOMAIN calls
  OBVIOUS
<1>2. /\ UnitsOfCall(calls[1]) \in Seq(GoodUnits) /\ Len(UnitsOfCall(calls[1])) > 0
      /\ UnitsOfCall(calls[Len(calls)]) \in Seq(GoodUnits)
  BY <1>1, UnitsOfCallGood
<1>3. close(calls[1]) \in Seq(GoodUnits) /\ close(calls[Len(calls)]) \in Seq(GoodUnits)
  BY <1>1, LLMUnitGood
<1>4. \/ BuildUnits(calls) = UnitsOfCall(calls[1]) \o close(calls[1])
      \/ BuildUnits(calls) =
           UnitsOfCall(calls[1]) \o UnitsOfCall(calls[Len(calls)]) \o close(calls[Len(calls)])
  BY DEF BuildUnits
<1> HIDE DEF close
<1> DEFINE first == UnitsOfCall(calls[1])
           final == UnitsOfCall(calls[Len(calls)])
           tail == close(calls[Len(calls)])
<1> HIDE DEF first, final, tail
<1>5. ASSUME NEW p \in Seq(GoodUnits), NEW q \in Seq(GoodUnits), Len(p) > 0
      PROVE  p \o q \in Seq(GoodUnits) /\ Len(p \o q) > 0
  BY <1>5, ConcatProperties
<1>6. first \o close(calls[1]) \in Seq(GoodUnits) /\ Len(first \o close(calls[1])) > 0
  BY <1>2, <1>3, <1>5 DEF first
<1>7. first \o final \in Seq(GoodUnits) /\ Len(first \o final) > 0
  BY <1>2, <1>5 DEF first, final
<1>8. (first \o final) \o tail \in Seq(GoodUnits) /\ Len((first \o final) \o tail) > 0
  BY <1>3, <1>5, <1>7 DEF tail
<1> QED BY <1>4, <1>6, <1>8 DEF first, final, tail

\* A task keeps its owner, its start input and the rest when its units change.
LEMMA AfterUnitGood ==
  ASSUME NEW t \in Task, GoodTask(t), t.kind = "TOOL", NEW k \in Pending(t),
         NEW ok \in BOOLEAN, NEW appended \in Seq(GoodUnits),
         t.units[k].tool = "return" /\ ok => t.owner # Root
  PROVE  AfterUnit(t, k, ok, appended) \in Task /\ GoodTask(AfterUnit(t, k, ok, appended))
<1> DEFINE finished == [t.units EXCEPT ![k].status = "FINISHED", ![k].ok = ok]
           units == finished \o appended
           status == IF \A j \in DOMAIN units : units[j].status = "FINISHED"
                     THEN "COMPLETED" ELSE "RUNNING"
           Mine == {u \in Unit : GoodUnit(t.owner, u)}
<1>1. t.units \in Seq(Unit) /\ k \in DOMAIN t.units /\ t.owner \in Agents
  BY DEF Task, Pending
<1>2. t.units \in Seq(Mine)
  BY <1>1 DEF GoodTask
<1>3. [t.units[k] EXCEPT !.status = "FINISHED", !.ok = ok] \in Mine
  <2> DEFINE u == t.units[k]
             v == [u EXCEPT !.status = "FINISHED", !.ok = ok]
  <2>1. u \in Unit /\ GoodTarget(u) /\ (u.tool = "return" /\ ok => t.owner # Root)
    BY <1>1 DEF GoodTask, GoodUnit
  <2> HIDE DEF u
  <2>2. v \in Unit /\ v.tool = u.tool /\ v.target = u.target /\ v.ok = ok
    BY <2>1 DEF Unit
  <2> HIDE DEF v
  <2>3. GoodUnit(t.owner, v)
    BY <2>1, <2>2 DEF GoodUnit, GoodTarget
  <2> QED BY <2>2, <2>3 DEF u, v
<1>4. finished \in Seq(Mine) /\ Len(finished) > 0
  <2>1. finished = [t.units EXCEPT ![k] = [t.units[k] EXCEPT !.status = "FINISHED", !.ok = ok]]
    BY <1>1
  <2> HIDE DEF Mine, finished
  <2> QED BY <1>1, <1>2, <1>3, <2>1
<1>5. appended \in Seq(Mine)
  BY <1>1 DEF GoodUnits
<1> HIDE DEF finished
<1>6. units \in Seq(Mine) /\ Len(units) > 0
  <2> HIDE DEF Mine
  <2> QED BY <1>4, <1>5, ConcatProperties
<1> HIDE DEF units
<1>7. units \in Seq(Unit) /\ \A j \in DOMAIN units : GoodUnit(t.owner, units[j])
  BY <1>6
<1>8. AfterUnit(t, k, ok, appended)
        = [t EXCEPT !.units = units, !.request = NoRequest, !.status = status]
  BY DEF AfterUnit, units, finished
<1>9. NoRequest \in Request /\ status \in TaskStatus
  BY DEF NoRequest, Request, TaskStatus
<1> HIDE DEF status, Mine
<1> QED BY <1>6, <1>7, <1>8, <1>9 DEF Task, GoodTask

\* A pending unit is given another field: the request it issues, or the CONTINUE
\* tag of its answer.
Edited(t, k, v, w) ==
  /\ w = [t EXCEPT !.units = [t.units EXCEPT ![k] = v]]
  /\ v \in Unit /\ GoodUnit(t.owner, v)
  /\ v.status = "PENDING" /\ v.tool = t.units[k].tool /\ v.ok = t.units[k].ok

\* An edited task is as good as it was, and the same but for that unit.
LEMMA EditedGood ==
  ASSUME NEW t \in Task, GoodTask(t), NEW k \in Pending(t), NEW v, NEW w, Edited(t, k, v, w)
  PROVE  /\ w \in Task /\ GoodTask(w) /\ k \in Pending(w) /\ w.kind = t.kind
         /\ w.owner = t.owner /\ w.start = t.start /\ w.status = t.status
         /\ w.request = t.request /\ w.units[k] = v /\ DOMAIN w.units = DOMAIN t.units
         /\ \A j \in DOMAIN t.units : j # k => w.units[j] = t.units[j]
<1> DEFINE Mine == {u \in Unit : GoodUnit(t.owner, u)}
           units == [t.units EXCEPT ![k] = v]
<1>1. t.units \in Seq(Unit) /\ k \in DOMAIN t.units /\ v.status = "PENDING"
  BY DEF Task, Pending, Edited
<1>2. t.units \in Seq(Mine) /\ v \in Mine
  BY <1>1 DEF GoodTask, Edited
<1> HIDE DEF Mine
<1>3. /\ units \in Seq(Mine) /\ Len(units) = Len(t.units) /\ DOMAIN units = DOMAIN t.units
      /\ units[k] = v /\ \A j \in DOMAIN t.units : j # k => units[j] = t.units[j]
  BY <1>1, <1>2
<1> HIDE DEF units
<1>4. units \in Seq(Unit) /\ \A j \in DOMAIN units : GoodUnit(t.owner, units[j])
  BY <1>3 DEF Mine
<1>5. w = [t EXCEPT !.units = units]
  BY DEF units, Edited
<1>6. /\ w \in Task /\ w.units = units /\ w.calls = t.calls /\ w.kind = t.kind
      /\ w.owner = t.owner /\ w.start = t.start /\ w.status = t.status /\ w.request = t.request
  BY <1>4, <1>5 DEF Task
<1>7. GoodTask(w)
  BY <1>3, <1>4, <1>6 DEF GoodTask
<1> QED BY <1>1, <1>3, <1>6, <1>7 DEF Pending

\* A task that is paused, answered or completed keeps its calls and its units.
LEMMA InterruptedGood ==
  ASSUME NEW t \in Task, GoodTask(t), nextReq \in Nat
  PROVE  Interrupted(t) \in Task /\ GoodTask(Interrupted(t))
<1>1. [id |-> nextReq, origin |-> t.status, answered |-> FALSE, ok |-> FALSE] \in Request
  BY DEF Task, Request
<1> QED BY <1>1 DEF Interrupted, Task, GoodTask, TaskStatus

LEMMA AnsweredGood ==
  ASSUME NEW t \in Task, GoodTask(t), NEW in \in Input
  PROVE  Answered(t, in) \in Task /\ GoodTask(Answered(t, in))
<1>1. [t.request EXCEPT !.answered = TRUE, !.ok = in.ok] \in Request
  BY DEF Task, Request, Input
<1>2. t.request.origin \in TaskStatus
  BY DEF Task, Request
<1>3. Answered(t, in) = [t EXCEPT !.status = t.request.origin,
                         !.request = [t.request EXCEPT !.answered = TRUE, !.ok = in.ok]]
  BY DEF Answered, Task, Request
<1> QED BY <1>1, <1>2, <1>3 DEF Task, GoodTask

LEMMA NewTaskGood ==
  ASSUME NEW in \in Input, NEW owner \in Agents
  PROVE  NewTask(in, owner) \in Task /\ GoodTask(NewTask(in, owner))
<1>1. <<>> \in Seq(Call) /\ <<>> \in Seq(Unit) /\ NoRequest \in Request
  BY DEF NoRequest, Request, TaskStatus
<1> QED BY <1>1 DEF NewTask, Task, GoodTask, TaskStatus

-----------------------------------------------------------------------------
(* The frames.                                                              *)

\* The frame change of a completed task of the top agent: a push of another agent
\* than the root, or a pop by another agent than the root, so never of the bottom.
LEMMA ChangeFramesSound ==
  ASSUME NEW s, Sound(s), NEW t \in Task, GoodTask(t), t.owner = Top(s)
  PROVE  Sound(ChangeFrames(s, t))
<1>1. /\ s.frames \in Seq(Agents) /\ Len(s.frames) \in Nat /\ Len(s.frames) > 0
      /\ \A i \in DOMAIN s.frames : s.frames[i] = Root <=> i = 1
  BY DEF Sound, Session, GoodFrames
<1>2. HandsOff(t) \/ HandsBack(t) =>
        t.units \in Seq(Unit) /\ Len(t.units) \in DOMAIN t.units /\ GoodUnit(t.owner, LastUnit(t))
  BY DEF HandsOff, HandsBack, LastUnit, GoodTask, Task
<1>3. FramesAfter(s, t) \in Seq(Agents) /\ FramesAfter(s, t) # <<>>
      /\ \A i \in DOMAIN FramesAfter(s, t) : FramesAfter(s, t)[i] = Root <=> i = 1
  <2>1. CASE HandsOff(t)
    <3> DEFINE a == LastUnit(t).target
    <3>1. a \in Agents /\ a # Root
      BY <1>2, <2>1 DEF HandsOff, GoodUnit, GoodTarget
    <3>2. ~HandsBack(t) /\ ~Reports(s, t)
      BY <2>1 DEF HandsOff, HandsBack, Reports
    <3>3. FramesAfter(s, t) = Append(s.frames, a)
      BY <2>1, <3>2 DEF FramesAfter
    <3> HIDE DEF a
    <3> QED BY <1>1, <3>1, <3>3
  <2>2. CASE ~HandsOff(t) /\ (HandsBack(t) \/ Reports(s, t))
    <3>1. Len(s.frames) > 1
      <4>1. CASE HandsBack(t)
        BY <1>1, <1>2, <4>1 DEF HandsBack, GoodUnit, Top
      <4>2. CASE Reports(s, t)
        BY <4>2 DEF Reports
      <4> QED BY <2>2, <4>1, <4>2
    <3>2. FramesAfter(s, t) = SubSeq(s.frames, 1, Len(s.frames) - 1)
      BY <2>2 DEF FramesAfter
    <3> DEFINE m == Len(s.frames) - 1
    <3>3. m \in Nat /\ m > 0 /\ \A i \in 1..m : i \in DOMAIN s.frames /\ s.frames[i] \in Agents
      BY <1>1, <3>1
    <3> HIDE DEF m
    <3> DEFINE rest == SubSeq(s.frames, 1, m)
    <3>4. rest \in Seq(Agents) /\ Len(rest) = m /\ \A i \in 1..m : rest[i] = s.frames[i]
      BY <3>3, SubSeqProperties
    <3> HIDE DEF rest
    <3>5. rest # <<>> /\ \A i \in DOMAIN rest : rest[i] = Root <=> i = 1
      BY <1>1, <3>3, <3>4
    <3> QED BY <3>2, <3>4, <3>5 DEF m, rest
  <2>3. CASE ~HandsOff(t) /\ ~HandsBack(t) /\ ~Reports(s, t)
    BY <1>1, <2>3 DEF FramesAfter
  <2> QED BY <2>1, <2>2, <2>3
<1>4. Sound(LogFrameChange(s, t))
  BY LogSound DEF LogFrameChange
<1> QED BY <1>3, <1>4, WithFrames DEF ChangeFrames

\* Frames, owners and inputs are left alone by the history that is saved first.
LEMMA SaveTaskHistoryTop ==
  ASSUME NEW s, Sound(s), NEW t
  PROVE  Top(SaveTaskHistory(s, t)) = Top(s)
BY DEF SaveTaskHistory, Log, Top, Sound, Session

\* An input the runtime makes.
LEMMA NewInputType ==
  ASSUME nextInput \in Nat, NEW kind \in {"user", "handoff", "response", "unsupported"},
         NEW req \in Nat, NEW ok \in BOOLEAN, NEW to \in Agents \cup {NoAgent}
  PROVE  NewInput(kind, req, ok, to) \in Input
BY DEF NewInput, Input

LEMMA ArrivingInputType ==
  ASSUME nextInput \in Nat, nextReq \in Nat, NEW in \in ArrivingInputs
  PROVE  in \in Input
<1>1. ASSUME NEW kind \in Arrivals \cap {"user", "unsupported"},
             in = NewInput(kind, 0, FALSE, NoAgent)
      PROVE  in \in Input
  BY <1>1, NewInputType
<1>2. ASSUME NEW r \in 1..(nextReq - 1), NEW ok \in Answers,
             in = NewInput("response", r, ok, NoAgent)
      PROVE  in \in Input
  <2>1. r \in Nat /\ ok \in BOOLEAN
    BY ChoicesAreBoolean
  <2> QED BY <1>2, <2>1, NewInputType
<1>3. \/ \E kind \in Arrivals \cap {"user", "unsupported"} :
           in = NewInput(kind, 0, FALSE, NoAgent)
      \/ \E r \in 1..(nextReq - 1), ok \in Answers :
           in = NewInput("response", r, ok, NoAgent)
  BY DEF ArrivingInputs, NewInput
<1> QED BY <1>1, <1>2, <1>3
-----------------------------------------------------------------------------
(* The inductive invariant.                                                 *)

LEMMA InitIInv == Init => IInv
<1> SUFFICES ASSUME Init PROVE IInv
  OBVIOUS
<1>1. <<>> \in Seq(Input)
  OBVIOUS
<1> QED BY <1>1 DEF Init, IInv, Scalars, Stable

\* A handler leaves the loop for its checkpoint with a sound session.
LEMMA AwaitCheckpointIInv ==
  ASSUME IInv, InLoop, NEW s, Sound(s), AwaitCheckpoint(s),
         rtQueue' \in Seq(Input), nextInput' \in Nat \ {0}, nextReq' \in Nat \ {0},
         approved' \subseteq Nat,
         used' \in [runs : Nat, rounds : Nat, faults : Nat, crashes : Nat]
  PROVE  IInv'
<1>1. Sound(live') /\ pc' = "saving" /\ last' = last /\ stored' = stored
  BY DEF AwaitCheckpoint
<1>2. Sound(last) /\ Stable(stored)
  BY DEF IInv, InLoop
<1> QED BY <1>1, <1>2 DEF IInv, Scalars, Stable

\* What every step may use.
LEMMA Unfolded ==
  ASSUME IInv
  PROVE  /\ rtQueue \in Seq(Input)
         /\ pc \in {"idle", "starting", "loop", "saving", "finishing"}
         /\ nextInput \in Nat \ {0} /\ nextReq \in Nat \ {0} /\ approved \subseteq Nat
         /\ used \in [runs : Nat, rounds : Nat, faults : Nat, crashes : Nat]
         /\ pc # "idle" => Sound(live) /\ Sound(last)
         /\ Stable(live) /\ Stable(last) /\ Stable(stored)
         /\ nextInput + 1 \in Nat \ {0} /\ nextReq + 1 \in Nat \ {0}
BY DEF IInv, Scalars

LEMMA TaskGood ==
  ASSUME NEW s, Sound(s), NEW t \in s.tasks
  PROVE  t \in Task /\ GoodTask(t)
BY DEF Sound, Session

-----------------------------------------------------------------------------
(* One step per action.                                                     *)

\* A run starts from the stored session, loaded, and one input.
LEMMA BeginRunIInv == ASSUME IInv, BeginRun PROVE IInv'
<1>1. PICK resume \in Resumes, arriving \in {{}, ArrivingInputs} : StartRun(resume, arriving)
  BY DEF BeginRun
<1> DEFINE loaded == LoadSession(stored, resume)
<1>2. Sound(loaded)
  BY Unfolded, LoadSessionSound, ChoicesAreBoolean
<1> HIDE DEF loaded
<1>3. used' \in [runs : Nat, rounds : Nat, faults : Nat, crashes : Nat]
  BY <1>1, Unfolded DEF StartRun
<1>4. Sound(live') /\ nextInput' \in Nat \ {0}
  <2>1. CASE live' = loaded /\ nextInput' = nextInput
    BY <1>2, <2>1, Unfolded
  <2>2. ASSUME NEW in \in ArrivingInputs, live' = Enqueue(loaded, in), nextInput' = nextInput + 1
        PROVE  Sound(live') /\ nextInput' \in Nat \ {0}
    <3>1. in \in Input
      BY <2>2, ArrivingInputType, Unfolded
    <3> QED BY <1>2, <2>2, <3>1, EnqueueSound, Unfolded
  <2> QED BY <1>1, <2>1, <2>2 DEF StartRun, loaded
<1>5. rtQueue' \in Seq(Input)
  BY <1>1, <1>4 DEF StartRun, Sound, Session
<1> QED BY <1>1, <1>2, <1>3, <1>4, <1>5, Unfolded DEF StartRun, IInv, Scalars, Stable, loaded

\* A checkpoint only copies the live session.
LEMMA CommitIInv == ASSUME IInv, CommitRuntimeCheckpoint PROVE IInv'
BY Unfolded DEF CommitRuntimeCheckpoint, IInv, Scalars, Stable

\* The task a completed or running task stands for.
LEMMA AdvanceCompletedMessageIInv == ASSUME IInv, AdvanceCompletedMessage PROVE IInv'
<1>1. PICK t \in CompletedTasks(live) :
        /\ t.kind = "MESSAGE" /\ t.calls # <<>>
        /\ AwaitCheckpoint(PutTask(live, [t EXCEPT !.kind = "TOOL", !.status = "RUNNING",
                                                   !.calls = <<>>, !.cont = FALSE,
                                                   !.units = BuildUnits(t.calls),
                                                   !.request = NoRequest]))
  BY DEF AdvanceCompletedMessage
<1> DEFINE units == BuildUnits(t.calls)
           u == [t EXCEPT !.kind = "TOOL", !.status = "RUNNING", !.calls = <<>>,
                          !.cont = FALSE, !.units = units, !.request = NoRequest]
<1>2. Sound(live) /\ InLoop
  BY Unfolded DEF AdvanceCompletedMessage, InLoop
<1>3. t \in Task /\ GoodTask(t)
  BY <1>1, <1>2, TaskGood DEF CompletedTasks, OwnerTasks
<1>4. units \in Seq(GoodUnits) /\ Len(units) > 0
  BY <1>1, <1>3, BuildUnitsGood DEF Task, GoodTask
<1> HIDE DEF units
<1>5. u \in Task /\ GoodTask(u)
  <2>1. units \in Seq(Unit) /\ \A k \in DOMAIN units : GoodUnit(t.owner, units[k])
    BY <1>3, <1>4 DEF GoodUnits, Task
  <2>2. <<>> \in Seq(Call) /\ NoRequest \in Request
    BY DEF NoRequest, Request, TaskStatus
  <2>3. u \in Task /\ u.calls = <<>> /\ u.units = units /\ u.owner = t.owner
    BY <1>3, <2>1, <2>2 DEF Task, TaskStatus
  <2> HIDE DEF u
  <2> QED BY <1>4, <2>1, <2>3 DEF GoodTask
<1>6. Sound(PutTask(live, u))
  BY <1>2, <1>5, PutTaskSound
<1> QED BY <1>1, <1>2, <1>6, AwaitCheckpointIInv, Unfolded DEF AdvanceCompletedMessage, units, u

LEMMA AdvanceCompletedTaskIInv == ASSUME IInv, AdvanceCompletedTask PROVE IInv'
<1> DEFINE changed(t) == ChangeFrames(SaveTaskHistory(live, t), t)
<1>1. PICK t \in CompletedTasks(live) :
        IF HandsOff(t) \/ HandsBack(t)
        THEN /\ AwaitCheckpoint(DropTask(Enqueue(changed(t), WakeInput(changed(t))), t))
             /\ rtQueue' = Append(rtQueue, WakeInput(changed(t)))
             /\ nextInput' = nextInput + 1
        ELSE AwaitCheckpoint(DropTask(changed(t), t)) /\ UNCHANGED <<rtQueue, nextInput>>
  BY DEF AdvanceCompletedTask
<1>2. Sound(live) /\ InLoop
  BY Unfolded DEF AdvanceCompletedTask, InLoop
<1>3. t \in Task /\ GoodTask(t) /\ t.owner = Top(live)
  BY <1>2, TaskGood DEF CompletedTasks, OwnerTasks
<1> DEFINE s == changed(t)
<1>4. Sound(s)
  BY <1>2, <1>3, SaveTaskHistorySound, SaveTaskHistoryTop, ChangeFramesSound
<1> HIDE DEF changed
<1>5. nextReq' = nextReq /\ approved' = approved /\ used' = used
  BY DEF AdvanceCompletedTask
<1>6. CASE HandsOff(t) \/ HandsBack(t)
  <2>1. WakeInput(s) \in Input
    BY <1>4, TopIsAgent, NewInputType, Unfolded DEF WakeInput
  <2> HIDE DEF s
  <2>2. Append(rtQueue, WakeInput(s)) \in Seq(Input)
    BY <2>1, Unfolded
  <2>3. Sound(DropTask(Enqueue(s, WakeInput(s)), t))
    BY <1>4, <2>1, EnqueueSound, DropTaskSound
  <2> QED BY <1>1, <1>2, <1>5, <1>6, <2>2, <2>3, AwaitCheckpointIInv, Unfolded DEF s
<1>7. CASE ~(HandsOff(t) \/ HandsBack(t))
  <2>1. Sound(DropTask(s, t))
    BY <1>4, DropTaskSound
  <2> QED BY <1>1, <1>2, <1>5, <1>7, <2>1, AwaitCheckpointIInv, Unfolded
<1> QED BY <1>6, <1>7

\* The task that runs next is a good task of the top agent.
LEMMA RunningGood ==
  ASSUME IInv, NEW t \in AvailableRunning(live), NextRunning(t)
  PROVE  InLoop /\ Sound(live) /\ t \in Task /\ GoodTask(t) /\ t.owner = Top(live)
BY Unfolded, TaskGood DEF NextRunning, InLoop, AvailableRunning, OwnerTasks

LEMMA CountRoundType ==
  ASSUME IInv, NEW calls, CountRound(calls)
  PROVE  used' \in [runs : Nat, rounds : Nat, faults : Nat, crashes : Nat]
BY Unfolded DEF CountRound

LEMMA AdvanceRunningMessageIInv == ASSUME IInv, AdvanceRunningMessage PROVE IInv'
<1>1. PICK t \in AvailableRunning(live), calls \in Messages(live, FALSE),
           cont \in ContinueTags(live) :
        /\ NextRunning(t) /\ t.kind = "MESSAGE"
        /\ AwaitCheckpoint(PutTask(live, [t EXCEPT !.status = "COMPLETED", !.calls = calls,
                                                   !.cont = cont, !.request = NoRequest]))
        /\ CountRound(calls)
        /\ UNCHANGED <<rtQueue, nextInput, nextReq, approved>>
  BY DEF AdvanceRunningMessage
<1> DEFINE u == [t EXCEPT !.status = "COMPLETED", !.calls = calls, !.cont = cont,
                          !.request = NoRequest]
<1>2. InLoop /\ Sound(live) /\ t \in Task /\ GoodTask(t)
  BY <1>1, RunningGood
<1>3. calls \in Seq(Call) /\ \A i \in DOMAIN calls : GoodTarget(calls[i])
  BY <1>2, MessagesGood, Unfolded
<1>4. cont \in BOOLEAN /\ NoRequest \in Request
  BY DEF ContinueTags, NoRequest, Request, TaskStatus
<1>5. u \in Task /\ GoodTask(u)
  BY <1>1, <1>2, <1>3, <1>4 DEF Task, GoodTask, TaskStatus
<1> HIDE DEF u
<1>6. Sound(PutTask(live, u))
  BY <1>2, <1>5, PutTaskSound
<1> QED BY <1>1, <1>2, <1>6, AwaitCheckpointIInv, CountRoundType, Unfolded DEF u

\* A unit that ends, and leaves the queue alone.
LEMMA FinishUnitIInv ==
  ASSUME IInv, NEW t \in AvailableRunning(live), NEW k \in Pending(t), NextRunning(t),
         t.kind = "TOOL", NEW ok \in BOOLEAN, FinishUnit(t, k, ok),
         t.units[k].tool = "return" /\ ok => t.owner # Root,
         UNCHANGED <<rtQueue, nextInput, nextReq, approved, used>>
  PROVE  IInv'
<1>1. InLoop /\ Sound(live) /\ t \in Task /\ GoodTask(t)
  BY RunningGood
<1>2. <<>> \in Seq(GoodUnits)
  OBVIOUS
<1>3. Sound(PutTask(live, AfterUnit(t, k, ok, <<>>)))
  BY <1>1, <1>2, AfterUnitGood, PutTaskSound
<1> QED BY <1>1, <1>3, AwaitCheckpointIInv, Unfolded DEF FinishUnit

LEMMA ExecuteHandoffReturnIInv ==
  ASSUME IInv, NEW t \in AvailableRunning(live), NEW k \in Pending(t), NextRunning(t),
         t.kind = "TOOL", ExecuteHandoffReturn(t, k)
  PROVE  IInv'
<1> DEFINE ok == Len(live.frames) >= 2
<1>1. Sound(live) /\ t.owner = Top(live)
  BY RunningGood
<1>2. ok => t.owner # Root
  BY <1>1 DEF Top, Sound, Session, GoodFrames
<1>3. FinishUnit(t, k, ok) /\ UNCHANGED <<rtQueue, nextInput, nextReq, approved, used>>
  BY DEF ExecuteHandoffReturn
<1> HIDE DEF ok
<1>4. ok \in BOOLEAN
  BY DEF ok
<1> QED BY <1>2, <1>3, <1>4, FinishUnitIInv

LEMMA ExecuteResumeTaskIInv ==
  ASSUME IInv, NEW t \in AvailableRunning(live), NEW k \in Pending(t), NextRunning(t),
         t.kind = "TOOL", ExecuteResumeTask(t, k)
  PROVE  IInv'
<1> DEFINE r == t.units[k].req
<1>1. InLoop /\ Sound(live) /\ t \in Task /\ GoodTask(t)
  BY RunningGood
<1>2. t.units[k].tool = "resume" /\ UNCHANGED <<nextReq, approved, used>>
  BY DEF ExecuteResumeTask
<1>3. CASE FinishUnit(t, k, FALSE) /\ UNCHANGED <<rtQueue, nextInput>>
  BY <1>2, <1>3, FinishUnitIInv
<1>4. ASSUME NEW ok \in Answers,
             AwaitCheckpoint(Enqueue(PutTask(live, AfterUnit(t, k, TRUE, <<>>)),
                                     NewInput("response", r, ok, NoAgent))),
             rtQueue' = Append(rtQueue, NewInput("response", r, ok, NoAgent)),
             nextInput' = nextInput + 1
      PROVE  IInv'
  <2> DEFINE in == NewInput("response", r, ok, NoAgent)
  <2>1. r \in Nat /\ ok \in BOOLEAN
    <3>1. t.units \in Seq(Unit) /\ k \in DOMAIN t.units
      BY <1>1 DEF Pending, Task
    <3>2. t.units[k] \in Unit
      BY <3>1
    <3> QED BY <3>2, ChoicesAreBoolean DEF Unit
  <2>2. in \in Input
    BY <2>1, NewInputType, Unfolded
  <2>3. <<>> \in Seq(GoodUnits)
    OBVIOUS
  <2>4. Sound(PutTask(live, AfterUnit(t, k, TRUE, <<>>)))
    BY <1>1, <1>2, <2>3, AfterUnitGood, PutTaskSound
  <2>5. Sound(Enqueue(PutTask(live, AfterUnit(t, k, TRUE, <<>>)), in))
    BY <2>2, <2>4, EnqueueSound
  <2> HIDE DEF in
  <2>6. Append(rtQueue, in) \in Seq(Input)
    BY <2>2, Unfolded
  <2> QED BY <1>1, <1>2, <1>4, <2>5, <2>6, AwaitCheckpointIInv, Unfolded DEF in
<1> QED BY <1>3, <1>4 DEF ExecuteResumeTask

\* The unit that issues a request, or that reads the CONTINUE tag of its answer.
LEMMA AskingGood ==
  ASSUME NEW t \in Task, GoodTask(t), NEW k \in Pending(t), NEW req \in Nat,
         NEW w, w = [t EXCEPT !.units[k].req = req]
  PROVE  Edited(t, k, [t.units[k] EXCEPT !.req = req], w)
<1> DEFINE u == t.units[k]
<1>1. t.units \in Seq(Unit) /\ k \in DOMAIN t.units /\ u.status = "PENDING"
  BY DEF Task, Pending
<1>2. u \in Unit /\ GoodUnit(t.owner, u)
  BY <1>1 DEF GoodTask
<1> HIDE DEF u
<1>3. [u EXCEPT !.req = req] \in Unit
  BY <1>2 DEF Unit
<1>4. /\ GoodUnit(t.owner, [u EXCEPT !.req = req]) /\ [u EXCEPT !.req = req].status = "PENDING"
      /\ [u EXCEPT !.req = req].tool = u.tool /\ [u EXCEPT !.req = req].ok = u.ok
  BY <1>1, <1>2 DEF GoodUnit, GoodTarget, Unit
<1> QED BY <1>3, <1>4 DEF u, Edited

LEMMA ContinuingGood ==
  ASSUME NEW t \in Task, GoodTask(t), NEW k \in Pending(t), NEW cont \in BOOLEAN,
         NEW w, w = [t EXCEPT !.units[k].cont = cont]
  PROVE  Edited(t, k, [t.units[k] EXCEPT !.cont = cont], w)
<1> DEFINE u == t.units[k]
<1>1. t.units \in Seq(Unit) /\ k \in DOMAIN t.units /\ u.status = "PENDING"
  BY DEF Task, Pending
<1>2. u \in Unit /\ GoodUnit(t.owner, u)
  BY <1>1 DEF GoodTask
<1> HIDE DEF u
<1>3. [u EXCEPT !.cont = cont] \in Unit
  BY <1>2 DEF Unit
<1>4. /\ GoodUnit(t.owner, [u EXCEPT !.cont = cont])
      /\ [u EXCEPT !.cont = cont].status = "PENDING"
      /\ [u EXCEPT !.cont = cont].tool = u.tool /\ [u EXCEPT !.cont = cont].ok = u.ok
  BY <1>1, <1>2 DEF GoodUnit, GoodTarget, Unit
<1> QED BY <1>3, <1>4 DEF u, Edited

LEMMA IssueAsyncRequestIInv ==
  ASSUME IInv, NEW t \in AvailableRunning(live), NEW k \in Pending(t), NextRunning(t),
         t.kind = "TOOL", IssueAsyncRequest(t, k)
  PROVE  IInv'
<1> DEFINE asked == [t EXCEPT !.units[k].req = nextReq]
<1>1. InLoop /\ Sound(live) /\ t \in Task /\ GoodTask(t)
  BY RunningGood
<1>2. asked \in Task /\ GoodTask(asked)
  <2>1. PICK v : Edited(t, k, v, asked)
    BY <1>1, AskingGood, Unfolded
  <2> HIDE DEF asked
  <2> QED BY <1>1, <2>1, EditedGood
<1> HIDE DEF asked
<1> DEFINE paused == Interrupted(asked)
<1>3. paused \in Task /\ GoodTask(paused)
  BY <1>2, InterruptedGood, Unfolded
<1>4. /\ AwaitCheckpoint(SaveTaskHistory(PutTask(live, paused), paused))
      /\ nextReq' = nextReq + 1 /\ UNCHANGED <<rtQueue, nextInput, approved, used>>
  BY DEF IssueAsyncRequest, asked
<1> HIDE DEF paused
<1>5. Sound(SaveTaskHistory(PutTask(live, paused), paused))
  BY <1>1, <1>3, PutTaskSound, SaveTaskHistorySound
<1> QED BY <1>1, <1>4, <1>5, AwaitCheckpointIInv, Unfolded

LEMMA ExecuteLLMCallIInv ==
  ASSUME IInv, NEW t \in AvailableRunning(live), NEW k \in Pending(t), NextRunning(t),
         t.kind = "TOOL", ExecuteLLMCall(t, k)
  PROVE  IInv'
<1>1. InLoop /\ Sound(live) /\ t \in Task /\ GoodTask(t)
  BY RunningGood
<1>2. PICK calls \in Messages(live, t.units[k].noTools), cont \in ContinueTags(live) :
        /\ AwaitCheckpoint(PutTask(live, AfterUnit([t EXCEPT !.units[k].cont = cont], k, TRUE,
                             IF calls = <<>> THEN <<>> ELSE BuildUnits(calls))))
        /\ CountRound(calls)
  BY DEF ExecuteLLMCall
<1> DEFINE asked == [t EXCEPT !.units[k].cont = cont]
           appended == IF calls = <<>> THEN <<>> ELSE BuildUnits(calls)
<1>3. calls \in Seq(Call) /\ \A i \in DOMAIN calls : GoodTarget(calls[i])
  BY <1>1, MessagesGood, Unfolded
<1>4. appended \in Seq(GoodUnits)
  BY <1>3, BuildUnitsGood
<1> HIDE DEF appended
<1>5. /\ asked \in Task /\ GoodTask(asked) /\ asked.kind = "TOOL" /\ k \in Pending(asked)
      /\ asked.units[k].tool = "llm"
  <2>1. cont \in BOOLEAN /\ t.units[k].tool = "llm"
    BY DEF ContinueTags, ExecuteLLMCall
  <2>2. PICK v : Edited(t, k, v, asked)
    BY <1>1, <2>1, ContinuingGood
  <2>3. v.tool = "llm"
    BY <2>1, <2>2 DEF Edited
  <2> HIDE DEF asked
  <2> QED BY <1>1, <2>2, <2>3, EditedGood
<1> HIDE DEF asked
<1>6. Sound(PutTask(live, AfterUnit(asked, k, TRUE, appended)))
  BY <1>1, <1>4, <1>5, AfterUnitGood, PutTaskSound
<1>7. UNCHANGED <<rtQueue, nextInput, nextReq, approved>>
  BY DEF ExecuteLLMCall
<1> QED BY <1>1, <1>2, <1>6, <1>7, AwaitCheckpointIInv, CountRoundType, Unfolded
        DEF asked, appended

LEMMA AdvanceRunningToolIInv == ASSUME IInv, AdvanceRunningTool PROVE IInv'
<1>0. PICK t \in AvailableRunning(live) : \E k \in Pending(t) :
        /\ t.kind = "TOOL" /\ NextRunning(t)
        /\ \/ ExecuteSyncTool(t, k)
           \/ ExecuteConfirmedTool(t, k)
           \/ ExecuteHandoff(t, k)
           \/ ExecuteHandoffReturn(t, k)
           \/ ExecuteResumeTask(t, k)
           \/ ConsumeAsyncResponse(t, k)
           \/ IssueAsyncRequest(t, k)
           \/ ExecuteLLMCall(t, k)
  BY DEF AdvanceRunningTool, NextUnit
<1>1. PICK k \in Pending(t) :
        /\ t.kind = "TOOL" /\ NextRunning(t)
        /\ \/ ExecuteSyncTool(t, k)
           \/ ExecuteConfirmedTool(t, k)
           \/ ExecuteHandoff(t, k)
           \/ ExecuteHandoffReturn(t, k)
           \/ ExecuteResumeTask(t, k)
           \/ ConsumeAsyncResponse(t, k)
           \/ IssueAsyncRequest(t, k)
           \/ ExecuteLLMCall(t, k)
  BY <1>0
<1>2. CASE ExecuteSyncTool(t, k)
  BY <1>1, <1>2, FinishUnitIInv DEF ExecuteSyncTool
<1>3. CASE ExecuteConfirmedTool(t, k)
  <2>1. PICK ok \in BOOLEAN : FinishUnit(t, k, ok)
    BY <1>3 DEF ExecuteConfirmedTool
  <2> QED BY <1>1, <1>3, <2>1, FinishUnitIInv DEF ExecuteConfirmedTool
<1>4. CASE ExecuteHandoff(t, k)
  BY <1>1, <1>4, FinishUnitIInv DEF ExecuteHandoff
<1>5. CASE ExecuteHandoffReturn(t, k)
  BY <1>1, <1>5, ExecuteHandoffReturnIInv
<1>6. CASE ExecuteResumeTask(t, k)
  BY <1>1, <1>6, ExecuteResumeTaskIInv
<1>7. CASE ConsumeAsyncResponse(t, k)
  <2>1. t \in Task
    BY <1>1, RunningGood
  <2>2. t.request.ok \in BOOLEAN
    BY <2>1 DEF Task, Request
  <2>3. t.units[k].tool # "return"
    BY <1>7 DEF ConsumeAsyncResponse
  <2> QED BY <1>1, <1>7, <2>2, <2>3, FinishUnitIInv DEF ConsumeAsyncResponse
<1>8. CASE IssueAsyncRequest(t, k)
  BY <1>1, <1>8, IssueAsyncRequestIInv
<1>9. CASE ExecuteLLMCall(t, k)
  BY <1>1, <1>9, ExecuteLLMCallIInv
<1> QED BY <1>1, <1>2, <1>3, <1>4, <1>5, <1>6, <1>7, <1>8, <1>9

\* An input that is taken off both queues.
LEMMA QueuedInput ==
  ASSUME IInv, NEW i \in DOMAIN rtQueue
  PROVE  rtQueue[i] \in Input /\ Tail(rtQueue) \in Seq(Input)
<1>1. rtQueue \in Seq(Input) /\ rtQueue # <<>>
  BY Unfolded
<1> QED BY <1>1

LEMMA StartNewTaskIInv == ASSUME IInv, StartNewTask PROVE IInv'
<1>1. PICK i \in DOMAIN rtQueue :
        /\ NextQueued(rtQueue[i])
        /\ AwaitCheckpoint(PutTask(Dequeue(live, rtQueue[i]), NewTask(rtQueue[i], Top(live))))
        /\ rtQueue' = Tail(rtQueue)
        /\ UNCHANGED <<nextInput, nextReq, approved, used>>
  BY DEF StartNewTask
<1>2. InLoop /\ Sound(live)
  BY <1>1, Unfolded DEF NextQueued, InLoop
<1>3. NewTask(rtQueue[i], Top(live)) \in Task /\ GoodTask(NewTask(rtQueue[i], Top(live)))
  BY <1>2, TopIsAgent, QueuedInput, NewTaskGood
<1>4. Sound(PutTask(Dequeue(live, rtQueue[i]), NewTask(rtQueue[i], Top(live))))
  BY <1>2, <1>3, DequeueSound, PutTaskSound
<1> QED BY <1>1, <1>2, <1>4, QueuedInput, AwaitCheckpointIInv, Unfolded

LEMMA ApplyInterruptionResponseIInv == ASSUME IInv, ApplyInterruptionResponse PROVE IInv'
<1>1. PICK i \in DOMAIN rtQueue :
        /\ NextQueued(rtQueue[i])
        /\ \/ AwaitCheckpoint(Dequeue(live, rtQueue[i])) /\ UNCHANGED approved
           \/ \E t \in Awaiting(Dequeue(live, rtQueue[i]), rtQueue[i].req) :
                /\ AwaitCheckpoint(PutTask(Dequeue(live, rtQueue[i]), Answered(t, rtQueue[i])))
                /\ approved' = IF rtQueue[i].ok THEN approved \cup {rtQueue[i].req} ELSE approved
        /\ rtQueue' = Tail(rtQueue)
        /\ UNCHANGED <<nextInput, nextReq, used>>
  BY DEF ApplyInterruptionResponse
<1> DEFINE s == Dequeue(live, rtQueue[i])
<1>2. InLoop /\ Sound(s) /\ rtQueue[i] \in Input
  BY <1>1, DequeueSound, QueuedInput, Unfolded DEF NextQueued, InLoop
<1>3. CASE AwaitCheckpoint(s) /\ UNCHANGED approved
  BY <1>1, <1>2, <1>3, QueuedInput, AwaitCheckpointIInv, Unfolded
<1>4. ASSUME NEW t \in Awaiting(s, rtQueue[i].req),
             AwaitCheckpoint(PutTask(s, Answered(t, rtQueue[i]))),
             approved' = IF rtQueue[i].ok THEN approved \cup {rtQueue[i].req} ELSE approved
      PROVE  IInv'
  <2>1. t \in Task /\ GoodTask(t)
    BY <1>2, TaskGood DEF Awaiting
  <2>2. Sound(PutTask(s, Answered(t, rtQueue[i])))
    BY <1>2, <2>1, AnsweredGood, PutTaskSound
  <2>3. approved' \subseteq Nat
    BY <1>2, <1>4, Unfolded DEF Input
  <2> QED BY <1>1, <1>2, <1>4, <2>2, <2>3, QueuedInput, AwaitCheckpointIInv, Unfolded
<1> QED BY <1>1, <1>3, <1>4

LEMMA LeaveLoopIInv == ASSUME IInv, LeaveLoop PROVE IInv'
BY Unfolded DEF LeaveLoop, InLoop, IInv, Scalars, Stable

LEMMA FinishRunIInv == ASSUME IInv, FinishRun PROVE IInv'
<1>1. Sound(CleanState(live))
  BY Unfolded, CleanStateSound DEF FinishRun
<1>2. <<>> \in Seq(Input)
  OBVIOUS
<1> QED BY <1>1, <1>2, Unfolded DEF FinishRun, IInv, Scalars, Stable

\* What a rollback or a crash leaves: the stored session, or the last checkpoint
\* with one task paused.
LEMMA ForgetIInv ==
  ASSUME IInv, Forget(stored), UNCHANGED <<nextInput, nextReq, approved>>,
         used' \in [runs : Nat, rounds : Nat, faults : Nat, crashes : Nat]
  PROVE  IInv'
<1>1. <<>> \in Seq(Input)
  OBVIOUS
<1> QED BY <1>1, Unfolded DEF Forget, IInv, Scalars

LEMMA PauseTaskIInv ==
  ASSUME IInv, pc # "idle", PauseTaskAfterException, UNCHANGED <<nextInput, approved>>,
         used' \in [runs : Nat, rounds : Nat, faults : Nat, crashes : Nat]
  PROVE  IInv'
<1>1. CASE Forget(stored) /\ UNCHANGED nextReq
  BY <1>1, ForgetIInv
<1>2. ASSUME NEW t \in Unpaused(last),
             live' = SaveTaskHistory(PutTask(last, Interrupted(t)), Interrupted(t)),
             last' = live', stored' = live', rtQueue' = <<>>, pc' = "finishing",
             nextReq' = nextReq + 1
      PROVE  IInv'
  <2>1. Sound(last) /\ t \in Task /\ GoodTask(t)
    BY Unfolded, TaskGood DEF Unpaused, OwnerTasks
  <2>2. Sound(live')
    BY <1>2, <2>1, InterruptedGood, PutTaskSound, SaveTaskHistorySound, Unfolded
  <2>3. <<>> \in Seq(Input)
    OBVIOUS
  <2> QED BY <1>2, <2>2, <2>3, Unfolded DEF IInv, Scalars, Stable
<1> QED BY <1>1, <1>2 DEF PauseTaskAfterException

LEMMA FailIInv == ASSUME IInv, Fail PROVE IInv'
<1>1. used' \in [runs : Nat, rounds : Nat, faults : Nat, crashes : Nat]
  BY Unfolded DEF Fail
<1> QED BY <1>1, PauseTaskIInv DEF Fail

LEMMA ProcessUnsupportedInputIInv == ASSUME IInv, ProcessUnsupportedInput PROVE IInv'
<1>1. pc # "idle"
  BY DEF ProcessUnsupportedInput, NextQueued, InLoop
<1> QED BY <1>1, PauseTaskIInv, Unfolded DEF ProcessUnsupportedInput

LEMMA CrashIInv == ASSUME IInv, Crash PROVE IInv'
<1>1. used' \in [runs : Nat, rounds : Nat, faults : Nat, crashes : Nat]
  BY Unfolded DEF Crash
<1> QED BY <1>1, ForgetIInv DEF Crash

-----------------------------------------------------------------------------
(* The theorems.                                                            *)

LEMMA NextIInv == ASSUME IInv, [Next]_vars PROVE IInv'
<1>1. CASE BeginRun
  BY <1>1, BeginRunIInv
<1>2. CASE RuntimeStep
  BY <1>2, CommitIInv, AdvanceCompletedMessageIInv, AdvanceCompletedTaskIInv,
     AdvanceRunningMessageIInv, AdvanceRunningToolIInv, StartNewTaskIInv,
     ApplyInterruptionResponseIInv, LeaveLoopIInv, ProcessUnsupportedInputIInv, FinishRunIInv
     DEF RuntimeStep
<1>3. CASE Fail
  BY <1>3, FailIInv
<1>4. CASE Crash
  BY <1>4, CrashIInv
<1>5. CASE UNCHANGED vars
  BY <1>5 DEF vars, IInv, Scalars, Stable
<1> QED BY <1>1, <1>2, <1>3, <1>4, <1>5 DEF Next

\* The inductive invariant holds in every state of every behaviour.
THEOREM Invariant == Spec => []IInv
BY InitIInv, NextIInv, PTL DEF Spec

\* No handler, rollback, crash or load builds a malformed session.
THEOREM TypeCorrect == Spec => []TypeOK
<1>1. NewSession \in Session
  <2>1. <<>> \in Seq(Agents) /\ <<>> \in Seq(Input) /\ <<>> \in Seq(Artifact)
    OBVIOUS
  <2> QED BY <2>1 DEF NewSession, Session
<1>2. IInv => TypeOK
  BY <1>1 DEF IInv, Scalars, Stable, Sound, TypeOK
<1> QED BY <1>2, Invariant, PTL

\* Whatever the agent graph, and in whatever order handoffs, returns, pauses,
\* rollbacks, crashes and loads come, a session that was loaded once has an owner,
\* and the root agent is at the bottom of its frames and nowhere else.
THEOREM RootStaysAtBottom == Spec => []RootAtBottom
<1>1. IInv => RootAtBottom
  BY DEF IInv, Stable, Sound, GoodFrames, RootAtBottom, Sessions
<1> QED BY <1>1, Invariant, PTL
-----------------------------------------------------------------------------
(***************************************************************************)
(* The two input queues of SessionRuntime: the one the loop pops and the   *)
(* durable one that is checkpointed are the same while a run goes on.      *)
(*                                                                         *)
(* The runtime pops the head of one queue and removes that input from the  *)
(* other by its id.  Both lose the same input because ids grow along every *)
(* queue, which holds because a new input is numbered above all queued     *)
(* ones, in whatever session a run, a rollback or a crash goes back to.    *)
(***************************************************************************)

Ordered(q) == \A i, j \in DOMAIN q : i < j => q[i].id < q[j].id

Below(q, bound) == \A i \in DOMAIN q : q[i].id < bound

\* The strengthening of QueueMirror.
QueueInv ==
  /\ QueueMirror
  /\ \A s \in Sessions : Ordered(s.queue) /\ Below(s.queue, nextInput)

-----------------------------------------------------------------------------
(* Queues.                                                                  *)

LEMMA IdsAreNat ==
  ASSUME NEW q \in Seq(Input), NEW i \in DOMAIN q
  PROVE  q[i].id \in Nat
<1>1. q[i] \in Input
  OBVIOUS
<1> QED BY <1>1 DEF Input

\* Removing the head of an ordered queue by its id leaves the tail.
LEMMA WithoutHead ==
  ASSUME NEW q \in Seq(Input), q # <<>>, Ordered(q)
  PROVE  Without(q, Head(q).id) = Tail(q)
<1> DEFINE i == CHOOSE j \in DOMAIN q : q[j].id = Head(q).id
<1>1. 1 \in DOMAIN q /\ Head(q) = q[1] /\ Len(q) \in Nat /\ Len(q) > 0
  OBVIOUS
<1>2. \A j \in DOMAIN q : q[j].id \in Nat
  BY IdsAreNat
<1>3. \A j \in DOMAIN q : q[j].id = Head(q).id => j = 1
  BY <1>1, <1>2 DEF Ordered
<1>4. i \in DOMAIN q /\ q[i].id = Head(q).id
  BY <1>1
<1>5. Without(q, Head(q).id) = SubSeq(q, 1, i - 1) \o SubSeq(q, i + 1, Len(q))
  BY <1>1 DEF Without
<1> HIDE DEF i
<1>6. i = 1
  BY <1>3, <1>4
<1>7. SubSeq(q, 1, 0) = <<>> /\ SubSeq(q, 2, Len(q)) = Tail(q)
  BY SubSeqEmpty, TailIsSubSeq
<1>8. Tail(q) \in Seq(Input)
  OBVIOUS
<1> QED BY <1>5, <1>6, <1>7, <1>8, ConcatEmptySeq

\* A queue stays ordered when its head leaves or a newer input joins.
LEMMA TailOrdered ==
  ASSUME NEW q \in Seq(Input), q # <<>>, NEW bound, Ordered(q), Below(q, bound)
  PROVE  Ordered(Tail(q)) /\ Below(Tail(q), bound)
<1>1. Len(q) \in Nat /\ Len(q) > 0 /\ DOMAIN Tail(q) = 1..(Len(q) - 1)
  OBVIOUS
<1>2. \A i \in DOMAIN Tail(q) : Tail(q)[i] = q[i + 1] /\ i + 1 \in DOMAIN q
  BY <1>1
<1> QED BY <1>1, <1>2 DEF Ordered, Below

LEMMA AppendOrdered ==
  ASSUME NEW q \in Seq(Input), NEW in \in Input, NEW bound \in Nat,
         Ordered(q), Below(q, bound), in.id = bound
  PROVE  Ordered(Append(q, in)) /\ Below(Append(q, in), bound + 1)
<1> DEFINE r == Append(q, in)
<1>1. Len(q) \in Nat /\ DOMAIN r = 1..(Len(q) + 1) /\ DOMAIN q = 1..Len(q)
  OBVIOUS
<1>2. r[Len(q) + 1] = in /\ \A i \in DOMAIN q : r[i] = q[i]
  OBVIOUS
<1>3. \A i \in DOMAIN q : q[i].id \in Nat
  BY IdsAreNat
<1> HIDE DEF r
<1>4. \A i \in DOMAIN r : i \in DOMAIN q \/ i = Len(q) + 1
  BY <1>1
<1>5. Ordered(r)
  BY <1>1, <1>2, <1>3, <1>4 DEF Ordered, Below
<1>6. Below(r, bound + 1)
  BY <1>1, <1>2, <1>3, <1>4 DEF Below
<1> QED BY <1>5, <1>6 DEF r

\* A bound on the ids of a queue can be raised.
LEMMA BelowMonotonic ==
  ASSUME NEW q \in Seq(Input), NEW bound \in Nat, Below(q, bound)
  PROVE  Below(q, bound + 1)
<1>1. \A i \in DOMAIN q : q[i].id \in Nat
  BY IdsAreNat
<1> QED BY <1>1 DEF Below

LEMMA EmptyOrdered == Ordered(<<>>) /\ \A bound : Below(<<>>, bound)
BY DEF Ordered, Below

-----------------------------------------------------------------------------
(* The queue of a session after each operation.                             *)

LEMMA QueueOfTasks ==
  ASSUME NEW s, Sound(s), NEW t
  PROVE  /\ PutTask(s, t).queue = s.queue
         /\ DropTask(s, t).queue = s.queue
         /\ SaveTaskHistory(s, t).queue = s.queue
         /\ LogFrameChange(s, t).queue = s.queue
BY DEF Sound, Session, PutTask, DropTask, SaveTaskHistory, Log, LogFrameChange

LEMMA QueueOfFrames ==
  ASSUME NEW s, Sound(s), NEW t \in Task
  PROVE  ChangeFrames(s, t).queue = s.queue
<1>1. Sound(LogFrameChange(s, t))
  BY LogSound DEF LogFrameChange
<1> QED BY <1>1, QueueOfTasks DEF ChangeFrames, Sound, Session

LEMMA QueueOfInputs ==
  ASSUME NEW s, Sound(s), NEW in
  PROVE  /\ Enqueue(s, in).queue = Append(s.queue, in)
         /\ Dequeue(s, in).queue = Without(s.queue, in.id)
         /\ CleanState(s).queue = <<>>
BY DEF Sound, Session, Enqueue, Dequeue, CleanState

LEMMA QueueOfLoad ==
  ASSUME NEW s, Stable(s), NEW resume \in BOOLEAN
  PROVE  LoadSession(s, resume).queue \in {s.queue, <<>>}
<1>1. Sound(SanitizeFrames(s)) /\ SanitizeFrames(s).queue \in {s.queue, <<>>}
  BY SanitizeFramesSound DEF SanitizeFrames, Stable, NewSession, Sound, Session
<1>2. ASSUME NEW r, Sound(r) PROVE Sound(KeepRecentPaused(r)) /\ KeepRecentPaused(r).queue = r.queue
  BY <1>2 DEF KeepRecentPaused, Sound, Session, GoodFrames
<1>3. /\ Sound(KeepRecentPaused(SanitizeFrames(s)))
      /\ KeepRecentPaused(SanitizeFrames(s)).queue = SanitizeFrames(s).queue
  BY <1>1, <1>2
<1> QED BY <1>1, <1>3, QueueOfInputs DEF LoadSession

-----------------------------------------------------------------------------
(* One step per action: the task and frame changes leave the queues alone,  *)
(* a push appends one input to both, a pop takes the head off both.         *)

LEMMA QueueUnfolded ==
  ASSUME IInv, QueueInv
  PROVE  /\ \A s \in Sessions : Ordered(s.queue) /\ Below(s.queue, nextInput)
         /\ pc \in {"starting", "loop", "saving"} => rtQueue = live.queue
         /\ \A s \in Sessions : s.queue \in Seq(Input)
         /\ nextInput \in Nat
<1>1. <<>> \in Seq(Input)
  OBVIOUS
<1>2. ASSUME NEW s, Stable(s) PROVE s.queue \in Seq(Input)
  <2>1. CASE s = NewSession
    BY <1>1, <2>1 DEF NewSession
  <2>2. CASE Sound(s)
    BY <2>2 DEF Sound, Session
  <2> QED BY <1>2, <2>1, <2>2 DEF Stable
<1>3. \A s \in Sessions : s.queue \in Seq(Input)
  BY <1>2, Unfolded DEF Sessions
<1> QED BY <1>3, Unfolded DEF QueueInv, QueueMirror

\* A handler that leaves both queues alone, appends to both, or pops both.
LEMMA KeepQueue ==
  ASSUME IInv, QueueInv, InLoop, NEW s, AwaitCheckpoint(s), s.queue = live.queue,
         UNCHANGED <<rtQueue, nextInput>>
  PROVE  QueueInv'
BY QueueUnfolded DEF AwaitCheckpoint, InLoop, QueueInv, QueueMirror, Sessions

LEMMA PushQueue ==
  ASSUME IInv, QueueInv, InLoop, NEW s, AwaitCheckpoint(s), NEW in \in Input,
         in.id = nextInput, s.queue = Append(live.queue, in),
         rtQueue' = Append(rtQueue, in), nextInput' = nextInput + 1
  PROVE  QueueInv'
<1>1. rtQueue = live.queue /\ live.queue \in Seq(Input) /\ nextInput \in Nat
  BY QueueUnfolded DEF InLoop, Sessions
<1>2. Ordered(live'.queue) /\ Below(live'.queue, nextInput')
  BY <1>1, AppendOrdered, QueueUnfolded DEF AwaitCheckpoint, Sessions
<1>3. \A r \in {last, stored} : Ordered(r.queue) /\ Below(r.queue, nextInput + 1)
  BY <1>1, BelowMonotonic, QueueUnfolded DEF Sessions
<1>4. QueueMirror'
  BY <1>1 DEF AwaitCheckpoint, QueueMirror
<1> QED BY <1>2, <1>3, <1>4 DEF AwaitCheckpoint, QueueInv, Sessions

LEMMA PopQueue ==
  ASSUME IInv, QueueInv, InLoop, NEW s, AwaitCheckpoint(s), rtQueue # <<>>,
         s.queue = Without(live.queue, Head(rtQueue).id),
         rtQueue' = Tail(rtQueue), UNCHANGED nextInput
  PROVE  QueueInv'
<1>1. rtQueue = live.queue /\ live.queue \in Seq(Input)
      /\ Ordered(live.queue) /\ Below(live.queue, nextInput)
  BY QueueUnfolded DEF InLoop, Sessions
<1>2. s.queue = Tail(live.queue)
  BY <1>1, WithoutHead
<1>3. Ordered(s.queue) /\ Below(s.queue, nextInput)
  BY <1>1, <1>2, TailOrdered
<1>4. QueueMirror'
  BY <1>1, <1>2 DEF AwaitCheckpoint, QueueMirror
<1> QED BY <1>3, <1>4, QueueUnfolded DEF AwaitCheckpoint, QueueInv, Sessions

\* The run, or the process, gives up: the loop is left with an empty queue.
LEMMA DropQueue ==
  ASSUME IInv, QueueInv, pc' \in {"idle", "finishing"}, UNCHANGED nextInput,
         \A s \in Sessions' : \E r \in Sessions : s.queue \in {r.queue, <<>>}
  PROVE  QueueInv'
<1>1. \A s \in Sessions' : Ordered(s.queue) /\ Below(s.queue, nextInput)
  BY EmptyOrdered, QueueUnfolded
<1> QED BY <1>1 DEF QueueInv, QueueMirror

LEMMA BeginRunQueue == ASSUME IInv, QueueInv, BeginRun PROVE QueueInv'
<1>1. PICK resume \in Resumes, arriving \in {{}, ArrivingInputs} : StartRun(resume, arriving)
  BY DEF BeginRun
<1> DEFINE loaded == LoadSession(stored, resume)
<1>2. Sound(loaded) /\ loaded.queue \in {stored.queue, <<>>}
  BY LoadSessionSound, QueueOfLoad, ChoicesAreBoolean, Unfolded
<1> HIDE DEF loaded
<1>3. loaded.queue \in Seq(Input) /\ Ordered(loaded.queue) /\ Below(loaded.queue, nextInput)
      /\ nextInput \in Nat
  BY <1>2, EmptyOrdered, QueueUnfolded DEF Sessions, Sound, Session
<1>4. last' = loaded /\ stored' = stored /\ rtQueue' = live'.queue
  BY <1>1 DEF StartRun, loaded
<1>5. CASE live' = loaded /\ nextInput' = nextInput
  BY <1>3, <1>4, <1>5, QueueUnfolded DEF QueueInv, QueueMirror, Sessions
<1>6. ASSUME NEW in \in ArrivingInputs, live' = Enqueue(loaded, in), nextInput' = nextInput + 1
      PROVE  QueueInv'
  <2>1. in.id = nextInput /\ in \in Input
    BY Unfolded, ArrivingInputType DEF ArrivingInputs, NewInput
  <2>2. live'.queue = Append(loaded.queue, in)
    BY <1>2, <1>6, QueueOfInputs
  <2>3. Ordered(live'.queue) /\ Below(live'.queue, nextInput + 1)
    BY <1>3, <2>1, <2>2, AppendOrdered
  <2>4. \A r \in {loaded, stored} : Ordered(r.queue) /\ Below(r.queue, nextInput + 1)
    BY <1>3, BelowMonotonic, QueueUnfolded DEF Sessions
  <2> QED BY <1>4, <1>6, <2>3, <2>4 DEF QueueInv, QueueMirror, Sessions
<1> QED BY <1>1, <1>5, <1>6 DEF StartRun, loaded

LEMMA CommitQueue == ASSUME IInv, QueueInv, CommitRuntimeCheckpoint PROVE QueueInv'
BY QueueUnfolded DEF CommitRuntimeCheckpoint, QueueInv, QueueMirror, Sessions

LEMMA AdvanceCompletedMessageQueue ==
  ASSUME IInv, QueueInv, AdvanceCompletedMessage
  PROVE  QueueInv'
<1>1. PICK t : AwaitCheckpoint(PutTask(live, t))
  BY DEF AdvanceCompletedMessage
<1>2. Sound(live) /\ InLoop /\ UNCHANGED <<rtQueue, nextInput>>
  BY Unfolded DEF AdvanceCompletedMessage, InLoop
<1> QED BY <1>1, <1>2, QueueOfTasks, KeepQueue

LEMMA AdvanceCompletedTaskQueue ==
  ASSUME IInv, QueueInv, AdvanceCompletedTask
  PROVE  QueueInv'
<1> DEFINE changed(t) == ChangeFrames(SaveTaskHistory(live, t), t)
<1>1. PICK t \in CompletedTasks(live) :
        IF HandsOff(t) \/ HandsBack(t)
        THEN /\ AwaitCheckpoint(DropTask(Enqueue(changed(t), WakeInput(changed(t))), t))
             /\ rtQueue' = Append(rtQueue, WakeInput(changed(t)))
             /\ nextInput' = nextInput + 1
        ELSE AwaitCheckpoint(DropTask(changed(t), t)) /\ UNCHANGED <<rtQueue, nextInput>>
  BY DEF AdvanceCompletedTask
<1>2. Sound(live) /\ InLoop
  BY Unfolded DEF AdvanceCompletedTask, InLoop
<1>3. t \in Task /\ GoodTask(t) /\ t.owner = Top(live)
  BY <1>2, TaskGood DEF CompletedTasks, OwnerTasks
<1> DEFINE s == changed(t)
<1>4. Sound(s)
  BY <1>2, <1>3, SaveTaskHistorySound, SaveTaskHistoryTop, ChangeFramesSound
<1>5. s.queue = live.queue
  BY <1>2, <1>3, SaveTaskHistorySound, QueueOfTasks, QueueOfFrames
<1> HIDE DEF changed
<1>6. CASE HandsOff(t) \/ HandsBack(t)
  <2> DEFINE in == WakeInput(s)
  <2>1. in \in Input /\ in.id = nextInput
    BY <1>4, TopIsAgent, NewInputType, Unfolded DEF WakeInput, NewInput
  <2> HIDE DEF in
  <2>2. Sound(Enqueue(s, in)) /\ Enqueue(s, in).queue = Append(live.queue, in)
    BY <1>4, <1>5, <2>1, EnqueueSound, QueueOfInputs
  <2>3. DropTask(Enqueue(s, in), t).queue = Append(live.queue, in)
    BY <2>2, QueueOfTasks
  <2> QED BY <1>1, <1>2, <1>6, <2>1, <2>3, PushQueue DEF in
<1>7. CASE ~(HandsOff(t) \/ HandsBack(t))
  <2>1. DropTask(s, t).queue = live.queue
    BY <1>4, <1>5, QueueOfTasks
  <2> QED BY <1>1, <1>2, <1>7, <2>1, KeepQueue
<1> QED BY <1>6, <1>7

LEMMA AdvanceRunningMessageQueue ==
  ASSUME IInv, QueueInv, AdvanceRunningMessage
  PROVE  QueueInv'
<1>1. PICK t : AwaitCheckpoint(PutTask(live, t))
  BY DEF AdvanceRunningMessage
<1>2. Sound(live) /\ InLoop /\ UNCHANGED <<rtQueue, nextInput>>
  BY Unfolded DEF AdvanceRunningMessage, NextRunning, InLoop
<1> QED BY <1>1, <1>2, QueueOfTasks, KeepQueue

\* A unit that only changes its task.
LEMMA UnitQueue ==
  ASSUME IInv, QueueInv, InLoop, NEW t, AwaitCheckpoint(PutTask(live, t)),
         UNCHANGED <<rtQueue, nextInput>>
  PROVE  QueueInv'
<1>1. Sound(live)
  BY Unfolded DEF InLoop
<1> QED BY <1>1, QueueOfTasks, KeepQueue

LEMMA AdvanceRunningToolQueue == ASSUME IInv, QueueInv, AdvanceRunningTool PROVE QueueInv'
<1>0. PICK t \in AvailableRunning(live) : \E k \in Pending(t) :
        /\ t.kind = "TOOL" /\ NextRunning(t)
        /\ \/ ExecuteSyncTool(t, k)
           \/ ExecuteConfirmedTool(t, k)
           \/ ExecuteHandoff(t, k)
           \/ ExecuteHandoffReturn(t, k)
           \/ ExecuteResumeTask(t, k)
           \/ ConsumeAsyncResponse(t, k)
           \/ IssueAsyncRequest(t, k)
           \/ ExecuteLLMCall(t, k)
  BY DEF AdvanceRunningTool, NextUnit
<1>1. PICK k \in Pending(t) :
        /\ t.kind = "TOOL" /\ NextRunning(t)
        /\ \/ ExecuteSyncTool(t, k)
           \/ ExecuteConfirmedTool(t, k)
           \/ ExecuteHandoff(t, k)
           \/ ExecuteHandoffReturn(t, k)
           \/ ExecuteResumeTask(t, k)
           \/ ConsumeAsyncResponse(t, k)
           \/ IssueAsyncRequest(t, k)
           \/ ExecuteLLMCall(t, k)
  BY <1>0
<1>2. InLoop /\ Sound(live) /\ t \in Task /\ GoodTask(t)
  BY <1>1, RunningGood
<1>3. ASSUME NEW ok, FinishUnit(t, k, ok), UNCHANGED <<rtQueue, nextInput>> PROVE QueueInv'
  BY <1>2, <1>3, UnitQueue DEF FinishUnit
<1>4. CASE ExecuteSyncTool(t, k)
  BY <1>3, <1>4 DEF ExecuteSyncTool
<1>5. CASE ExecuteConfirmedTool(t, k)
  BY <1>3, <1>5 DEF ExecuteConfirmedTool
<1>6. CASE ExecuteHandoff(t, k)
  BY <1>3, <1>6 DEF ExecuteHandoff
<1>7. CASE ExecuteHandoffReturn(t, k)
  BY <1>3, <1>7 DEF ExecuteHandoffReturn
<1>8. CASE ConsumeAsyncResponse(t, k)
  BY <1>3, <1>8 DEF ConsumeAsyncResponse
<1>9. CASE IssueAsyncRequest(t, k)
  <2> DEFINE paused == Interrupted([t EXCEPT !.units[k].req = nextReq])
  <2>1. AwaitCheckpoint(SaveTaskHistory(PutTask(live, paused), paused))
        /\ UNCHANGED <<rtQueue, nextInput>>
    BY <1>9 DEF IssueAsyncRequest
  <2> HIDE DEF paused
  <2>2. PutTask(live, paused).queue = live.queue
    BY <1>2, QueueOfTasks
  <2>3. SaveTaskHistory(PutTask(live, paused), paused).queue = live.queue
    BY <1>2, <2>2 DEF SaveTaskHistory, Log, PutTask, Sound, Session
  <2> QED BY <1>2, <2>1, <2>3, KeepQueue
<1>10. CASE ExecuteLLMCall(t, k)
  <2>1. PICK u : AwaitCheckpoint(PutTask(live, u))
    BY <1>10 DEF ExecuteLLMCall
  <2>2. UNCHANGED <<rtQueue, nextInput>>
    BY <1>10 DEF ExecuteLLMCall
  <2> QED BY <1>2, <2>1, <2>2, UnitQueue
<1>11. CASE ExecuteResumeTask(t, k)
  <2> DEFINE r == t.units[k].req
             after == PutTask(live, AfterUnit(t, k, TRUE, <<>>))
  <2>1. CASE FinishUnit(t, k, FALSE) /\ UNCHANGED <<rtQueue, nextInput>>
    BY <1>3, <2>1
  <2>2. ASSUME NEW ok \in Answers,
               AwaitCheckpoint(Enqueue(after, NewInput("response", r, ok, NoAgent))),
               rtQueue' = Append(rtQueue, NewInput("response", r, ok, NoAgent)),
               nextInput' = nextInput + 1
        PROVE  QueueInv'
    <3> DEFINE in == NewInput("response", r, ok, NoAgent)
    <3>1. r \in Nat /\ ok \in BOOLEAN
      <4>1. t.units \in Seq(Unit) /\ k \in DOMAIN t.units
        BY <1>2 DEF Pending, Task
      <4>2. t.units[k] \in Unit
        BY <4>1
      <4> QED BY <4>2, ChoicesAreBoolean DEF Unit
    <3>2. in \in Input /\ in.id = nextInput
      BY <3>1, NewInputType, Unfolded DEF NewInput
    <3>3. <<>> \in Seq(GoodUnits)
      OBVIOUS
    <3>4. Sound(after)
      BY <1>1, <1>2, <1>11, <3>3, AfterUnitGood, PutTaskSound DEF ExecuteResumeTask
    <3>5. after.queue = live.queue
      BY <1>2, QueueOfTasks
    <3> HIDE DEF in, after
    <3>6. Enqueue(after, in).queue = Append(live.queue, in)
      BY <3>4, <3>5, QueueOfInputs
    <3> QED BY <1>2, <2>2, <3>2, <3>6, PushQueue DEF in
  <2> QED BY <1>11, <2>1, <2>2 DEF ExecuteResumeTask
<1> QED BY <1>1, <1>4, <1>5, <1>6, <1>7, <1>8, <1>9, <1>10, <1>11

LEMMA StartNewTaskQueue == ASSUME IInv, QueueInv, StartNewTask PROVE QueueInv'
<1>1. PICK in, t : /\ NextQueued(in)
                   /\ AwaitCheckpoint(PutTask(Dequeue(live, in), t))
                   /\ rtQueue' = Tail(rtQueue) /\ UNCHANGED nextInput
  BY DEF StartNewTask
<1>2. InLoop /\ Sound(live) /\ rtQueue # <<>> /\ in = Head(rtQueue)
  BY <1>1, Unfolded DEF NextQueued, InLoop
<1>3. Sound(Dequeue(live, in)) /\ Dequeue(live, in).queue = Without(live.queue, in.id)
  BY <1>2, DequeueSound, QueueOfInputs
<1>4. PutTask(Dequeue(live, in), t).queue = Without(live.queue, in.id)
  BY <1>3, QueueOfTasks
<1> QED BY <1>1, <1>2, <1>4, PopQueue

LEMMA ApplyInterruptionResponseQueue ==
  ASSUME IInv, QueueInv, ApplyInterruptionResponse
  PROVE  QueueInv'
<1>1. PICK in : /\ NextQueued(in)
                /\ \/ AwaitCheckpoint(Dequeue(live, in))
                   \/ \E t : AwaitCheckpoint(PutTask(Dequeue(live, in), t))
                /\ rtQueue' = Tail(rtQueue) /\ UNCHANGED nextInput
  BY DEF ApplyInterruptionResponse
<1>2. InLoop /\ Sound(live) /\ rtQueue # <<>> /\ in = Head(rtQueue)
  BY <1>1, Unfolded DEF NextQueued, InLoop
<1>3. Sound(Dequeue(live, in)) /\ Dequeue(live, in).queue = Without(live.queue, in.id)
  BY <1>2, DequeueSound, QueueOfInputs
<1>4. CASE AwaitCheckpoint(Dequeue(live, in))
  BY <1>1, <1>2, <1>3, <1>4, PopQueue
<1>5. ASSUME NEW t, AwaitCheckpoint(PutTask(Dequeue(live, in), t)) PROVE QueueInv'
  <2>1. PutTask(Dequeue(live, in), t).queue = Without(live.queue, in.id)
    BY <1>3, QueueOfTasks
  <2> QED BY <1>1, <1>2, <1>5, <2>1, PopQueue
<1> QED BY <1>1, <1>4, <1>5

LEMMA FinishRunQueue == ASSUME IInv, QueueInv, FinishRun PROVE QueueInv'
<1>1. CleanState(live).queue = <<>>
  BY Unfolded, QueueOfInputs DEF FinishRun
<1> QED BY <1>1, DropQueue DEF FinishRun, Sessions

LEMMA PauseTaskQueue ==
  ASSUME IInv, QueueInv, pc # "idle", PauseTaskAfterException, UNCHANGED nextInput
  PROVE  QueueInv'
<1>1. CASE Forget(stored)
  BY <1>1, DropQueue DEF Forget, Sessions
<1>2. ASSUME NEW t \in Unpaused(last),
             live' = SaveTaskHistory(PutTask(last, Interrupted(t)), Interrupted(t)),
             last' = live', stored' = live', pc' = "finishing"
      PROVE  QueueInv'
  <2>1. Sound(last) /\ t \in Task /\ GoodTask(t)
    BY Unfolded, TaskGood DEF Unpaused, OwnerTasks
  <2>2. Sound(PutTask(last, Interrupted(t))) /\ PutTask(last, Interrupted(t)).queue = last.queue
    BY <2>1, InterruptedGood, PutTaskSound, QueueOfTasks, Unfolded
  <2>3. live'.queue = last.queue
    BY <1>2, <2>2, QueueOfTasks
  <2> QED BY <1>2, <2>3, DropQueue DEF Sessions
<1> QED BY <1>1, <1>2 DEF PauseTaskAfterException

LEMMA NextQueue == ASSUME IInv, QueueInv, [Next]_vars PROVE QueueInv'
<1>1. CASE BeginRun
  BY <1>1, BeginRunQueue
<1>2. CASE RuntimeStep
  <2>1. CASE LeaveLoop
    BY <2>1, DropQueue DEF LeaveLoop, Sessions
  <2>2. CASE ProcessUnsupportedInput
    BY <2>2, PauseTaskQueue DEF ProcessUnsupportedInput, NextQueued, InLoop
  <2> QED BY <1>2, <2>1, <2>2, CommitQueue, AdvanceCompletedMessageQueue,
          AdvanceCompletedTaskQueue, AdvanceRunningMessageQueue, AdvanceRunningToolQueue,
          StartNewTaskQueue, ApplyInterruptionResponseQueue, FinishRunQueue DEF RuntimeStep
<1>3. CASE Fail
  BY <1>3, PauseTaskQueue DEF Fail
<1>4. CASE Crash
  BY <1>4, DropQueue DEF Crash, Forget, Sessions
<1>5. CASE UNCHANGED vars
  BY <1>5 DEF vars, QueueInv, QueueMirror, Sessions
<1> QED BY <1>1, <1>2, <1>3, <1>4, <1>5 DEF Next

\* While the loop runs, the queue it pops is the durable queue of the live session,
\* and every queue a session can come back with is in the order of arrival.
THEOREM QueuesAgree == Spec => []QueueMirror
<1>1. Init => QueueInv
  BY EmptyOrdered DEF Init, NewSession, QueueInv, QueueMirror, Sessions
<1>2. QueueInv => QueueMirror
  BY DEF QueueInv
<1> QED BY <1>1, <1>2, NextQueue, Invariant, PTL DEF Spec

-----------------------------------------------------------------------------
(* What every session keeps.                                               *)

\* Every input a session knows of.
Seen(s) == Queued(s) \cup Taken(s) \cup Done(s)

Apart(s) ==
  /\ Queued(s) \cap Taken(s) = {} /\ Queued(s) \cap Done(s) = {} /\ Taken(s) \cap Done(s) = {}

OneTaskEach(s) == \A t, u \in s.tasks : Id(t) = Id(u) => t = u

IndicesOf(s, kind) == {i \in DOMAIN s.history : s.history[i].kind = kind}

DoneOnce(s) ==
  \A i, j \in IndicesOf(s, "done") : s.history[i].task = s.history[j].task => i = j

AskedOnce(s) ==
  \A t, u \in s.tasks : t.request.id > 0 /\ u.request.id = t.request.id => u = t

FramesCounted(s) ==
  s.frames # <<>> => Len(s.frames) = 1 + Count(s, "push") - Count(s, "pop")

\* What a session keeps by itself, whatever the counters are.
Orderly(s) ==
  /\ Apart(s) /\ OneTaskEach(s) /\ IsFiniteSet(s.tasks) /\ DoneOnce(s) /\ AskedOnce(s)
  /\ FramesCounted(s)

\* A request waits for its answer exactly while its task is paused.
Settled(t) ==
  /\ t.request.id < nextReq
  /\ t.status = "PAUSED" =>
       t.request.id > 0 /\ ~t.request.answered /\ t.request.origin # "PAUSED"
  /\ t.status # "PAUSED" /\ t.request.id > 0 => t.request.answered

Paired(units) ==
  \A k \in DOMAIN units : units[k].tool = "confirm" => k > 1 /\ units[k - 1].tool = "hitl"

\* A positive result of a HITL unit comes from its own request, a success of the
\* tool it guards from a positive result.
Confirmed(t) ==
  /\ Paired(t.units)
  /\ t.kind = "MESSAGE" => t.units = <<>>
  /\ t.request.answered /\ t.request.ok => t.request.id \in approved
  /\ \A k \in DOMAIN t.units :
       /\ t.units[k].status = "PENDING" => ~t.units[k].ok
       /\ t.units[k].tool = "hitl" /\ t.units[k].ok => t.units[k].req \in approved
       /\ t.units[k].tool = "confirm" /\ t.units[k].ok => t.units[k - 1].ok

Held(t) == Settled(t) /\ Confirmed(t)

\* The inductive invariant, next to IInv and QueueInv.
StepInv ==
  \A s \in Sessions :
    /\ Orderly(s)
    /\ \A i \in Seen(s) : i < nextInput
    /\ \A t \in s.tasks : Held(t)

-----------------------------------------------------------------------------
(* The ways a handler changes a session.                                    *)

\* The input is numbered above all that the session knows of.
Newest(s, in) == \A i \in Seen(s) : i < in.id

\* The task goes on: its finished units keep their results.
SameTask(t, u) ==
  /\ u.start = t.start /\ u.owner = t.owner /\ t.status # "PAUSED"
  /\ \A k \in Finished(t) : k \in Finished(u) /\ u.units[k] = t.units[k]

Continues(t, u) == SameTask(t, u) /\ u.status # "PAUSED" /\ u.request = NoRequest

Pauses(s, t, u) ==
  /\ SameTask(t, u) /\ u.status = "PAUSED"
  /\ \A w \in s.tasks : w.request.id < u.request.id

\* A task is advanced, and perhaps queues a response (resume_task).
Advanced(s, r) ==
  \E t \in s.tasks, u \in Task :
    /\ Continues(t, u)
    /\ \/ r = PutTask(s, u)
       \/ \E in \in Input : Newest(s, in) /\ r = Enqueue(PutTask(s, u), in)

\* A task is paused under a new request.
Paused(s, r) ==
  \E t \in s.tasks, u \in Task :
    Pauses(s, t, u) /\ r = SaveTaskHistory(PutTask(s, u), u)

\* A task of the top agent is closed, and perhaps wakes the agent that takes over.
Closed(s, r) ==
  \E t \in s.tasks :
    LET changed == ChangeFrames(SaveTaskHistory(s, t), t) IN
    /\ t.status # "PAUSED" /\ t.owner = Top(s)
    /\ \/ r = DropTask(changed, t)
       \/ \E in \in Input : Newest(s, in) /\ r = DropTask(Enqueue(changed, in), t)

\* The oldest input starts a task, wakes a paused one, or is not awaited.
Popped(s, r) ==
  /\ s.queue # <<>>
  /\ LET in == Head(s.queue)
         popped == Dequeue(s, in)
     IN \/ in.kind \in {"user", "handoff"} /\ r = PutTask(popped, NewTask(in, Top(s)))
        \/ in.kind = "response" /\ r = popped
        \/ /\ in.kind = "response"
           /\ \E t \in Awaiting(s, in.req) : r = PutTask(popped, Answered(t, in))

Handled(s, r) == Advanced(s, r) \/ Paused(s, r) \/ Closed(s, r) \/ Popped(s, r)

-----------------------------------------------------------------------------
(* The fields of a session after each operation.                            *)

LEMMA FieldsOfPut ==
  ASSUME NEW s, Sound(s), NEW t
  PROVE  /\ PutTask(s, t).tasks = {u \in s.tasks : Id(u) # Id(t)} \cup {t}
         /\ PutTask(s, t).queue = s.queue
         /\ PutTask(s, t).frames = s.frames
         /\ PutTask(s, t).history = s.history
BY DEF Sound, Session, PutTask

LEMMA FieldsOfDrop ==
  ASSUME NEW s, Sound(s), NEW t
  PROVE  /\ DropTask(s, t).tasks = {u \in s.tasks : Id(u) # Id(t)}
         /\ DropTask(s, t).queue = s.queue
         /\ DropTask(s, t).frames = s.frames
         /\ DropTask(s, t).history = s.history
BY DEF Sound, Session, DropTask

LEMMA FieldsOfLog ==
  ASSUME NEW s, Sound(s), NEW t, NEW kind
  PROVE  /\ Log(s, kind, t).tasks = s.tasks
         /\ Log(s, kind, t).queue = s.queue
         /\ Log(s, kind, t).frames = s.frames
         /\ Log(s, kind, t).history = Append(s.history, [kind |-> kind, task |-> Id(t)])
BY DEF Sound, Session, Log

LEMMA FieldsOfEnqueue ==
  ASSUME NEW s, Sound(s), NEW in
  PROVE  /\ Enqueue(s, in).tasks = s.tasks
         /\ Enqueue(s, in).queue = Append(s.queue, in)
         /\ Enqueue(s, in).frames = s.frames
         /\ Enqueue(s, in).history = s.history
BY DEF Sound, Session, Enqueue

\* The head of an ordered queue leaves it.
LEMMA FieldsOfPop ==
  ASSUME NEW s, Sound(s), s.queue # <<>>, Ordered(s.queue)
  PROVE  /\ Dequeue(s, Head(s.queue)).tasks = s.tasks
         /\ Dequeue(s, Head(s.queue)).queue = Tail(s.queue)
         /\ Dequeue(s, Head(s.queue)).frames = s.frames
         /\ Dequeue(s, Head(s.queue)).history = s.history
<1>1. s.queue \in Seq(Input)
  BY DEF Sound, Session
<1>2. Without(s.queue, Head(s.queue).id) = Tail(s.queue)
  BY <1>1, WithoutHead
<1> QED BY <1>2 DEF Sound, Session, Dequeue

\* A session that keeps some tasks of another one.
LEMMA FieldsOfClean ==
  ASSUME NEW s, Sound(s)
  PROVE  /\ CleanState(s).tasks = {t \in s.tasks : t.owner = Top(s) => t.status = "PAUSED"}
         /\ CleanState(s).queue = <<>>
         /\ CleanState(s).frames = s.frames
         /\ CleanState(s).history = s.history
BY DEF Sound, Session, CleanState, Top

-----------------------------------------------------------------------------
(* Ids, counts and histories.                                               *)

LEMMA TaskIds ==
  ASSUME NEW s, Sound(s)
  PROVE  /\ \A t \in s.tasks : Id(t) \in Nat /\ t.request.id \in Nat
         /\ \A i \in DOMAIN s.queue : s.queue[i].id \in Nat
         /\ \A i \in DOMAIN s.history : s.history[i].task \in Nat
         /\ Seen(s) \subseteq Nat
<1>1. \A t \in s.tasks : Id(t) \in Nat /\ t.request.id \in Nat
  BY DEF Sound, Session, Task, Input, Request, Id
<1>2. \A i \in DOMAIN s.queue : s.queue[i].id \in Nat
  <2>1. s.queue \in Seq(Input)
    BY DEF Sound, Session
  <2> QED BY <2>1, IdsAreNat
<1>3. \A i \in DOMAIN s.history : s.history[i].task \in Nat
  <2>1. s.history \in Seq(Artifact)
    BY DEF Sound, Session
  <2>2. \A i \in DOMAIN s.history : s.history[i] \in Artifact
    BY <2>1
  <2> QED BY <2>2 DEF Artifact
<1> QED BY <1>1, <1>2, <1>3 DEF Seen, Queued, Taken, Done

\* The ids of a queue that grows, or loses its head.
LEMMA QueuedAfterPush ==
  ASSUME NEW s, NEW r, s.queue \in Seq(Input), NEW in \in Input, r.queue = Append(s.queue, in)
  PROVE  Queued(r) = Queued(s) \cup {in.id}
<1>1. /\ DOMAIN r.queue = DOMAIN s.queue \cup {Len(s.queue) + 1}
      /\ r.queue[Len(s.queue) + 1] = in
      /\ \A i \in DOMAIN s.queue : r.queue[i] = s.queue[i]
  OBVIOUS
<1> QED BY <1>1 DEF Queued

LEMMA QueuedAfterPop ==
  ASSUME NEW s, NEW r, s.queue \in Seq(Input), s.queue # <<>>, Ordered(s.queue),
         r.queue = Tail(s.queue)
  PROVE  /\ Head(s.queue).id \in Queued(s)
         /\ Queued(r) = Queued(s) \ {Head(s.queue).id}
         /\ \A i \in Queued(s) : Head(s.queue).id <= i
         /\ Head(s.queue) \in Input
<1> DEFINE q == s.queue
<1>1. /\ Len(q) \in Nat /\ Len(q) > 0 /\ DOMAIN q = 1..Len(q) /\ Head(q) = q[1] /\ q[1] \in Input
      /\ DOMAIN Tail(q) = 1..(Len(q) - 1)
      /\ \A i \in DOMAIN Tail(q) : Tail(q)[i] = q[i + 1]
  OBVIOUS
<1>2. \A i \in DOMAIN q : q[i].id \in Nat
  BY IdsAreNat
<1>3. \A i \in DOMAIN q : i # 1 => q[1].id < q[i].id /\ i - 1 \in 1..(Len(q) - 1)
  <2>1. \A i \in 1..Len(q) : i # 1 => 1 \in 1..Len(q) /\ 1 < i /\ i - 1 \in 1..(Len(q) - 1)
    BY <1>1
  <2>2. \A i, j \in 1..Len(q) : i < j => q[i].id < q[j].id
    BY <1>1 DEF Ordered
  <2> QED BY <1>1, <2>1, <2>2
<1>4. Queued(s) = {q[i].id : i \in 1..Len(q)} /\ Queued(r) = {q[i + 1].id : i \in 1..(Len(q) - 1)}
  BY <1>1 DEF Queued
<1> HIDE DEF q
<1>5. 1 \in 1..Len(q) /\ \A i \in 1..(Len(q) - 1) : i + 1 \in 1..Len(q) /\ i + 1 # 1
  BY <1>1
<1>6. q[1].id \in Queued(s)
  BY <1>4, <1>5
<1>7. Queued(r) \subseteq Queued(s) \ {q[1].id}
  BY <1>1, <1>2, <1>3, <1>4, <1>5
<1>8. Queued(s) \ {q[1].id} \subseteq Queued(r)
  <2> SUFFICES ASSUME NEW i \in 1..Len(q), i # 1 PROVE q[i].id \in Queued(r)
    BY <1>4
  <2>1. i - 1 \in 1..(Len(q) - 1) /\ (i - 1) + 1 = i
    BY <1>1, <1>3
  <2> QED BY <1>4, <2>1
<1>9. \A i \in 1..Len(q) : q[1].id <= q[i].id
  BY <1>1, <1>2, <1>3
<1> QED BY <1>1, <1>4, <1>6, <1>7, <1>8, <1>9 DEF q

\* One artifact more in the history.
LogsAt(s, r, a, n) ==
  /\ r.history[n] = a
  /\ \A kind :
       /\ a.kind = kind => IndicesOf(r, kind) = IndicesOf(s, kind) \cup {n}
       /\ a.kind # kind => IndicesOf(r, kind) = IndicesOf(s, kind)
       /\ n \notin IndicesOf(s, kind)
       /\ \A i \in IndicesOf(s, kind) : r.history[i] = s.history[i]

LEMMA IndicesAfterLog ==
  ASSUME NEW s, NEW r, NEW a, s.history \in Seq(Artifact), r.history = Append(s.history, a)
  PROVE  \E n : LogsAt(s, r, a, n)
<1> DEFINE n == Len(s.history) + 1
<1>1. /\ DOMAIN r.history = DOMAIN s.history \cup {n}
      /\ r.history[n] = a
      /\ \A i \in DOMAIN s.history : r.history[i] = s.history[i]
      /\ n \notin DOMAIN s.history
  OBVIOUS
<1> HIDE DEF n
<1> QED BY <1>1 DEF IndicesOf, LogsAt

LEMMA CountIsCardinality ==
  ASSUME NEW s, s.history \in Seq(Artifact), NEW kind
  PROVE  /\ IsFiniteSet(IndicesOf(s, kind))
         /\ Count(s, kind) = Cardinality(IndicesOf(s, kind))
         /\ Count(s, kind) \in Nat
<1>1. IsFiniteSet(1..Len(s.history)) /\ IndicesOf(s, kind) \in SUBSET (1..Len(s.history))
  BY FS_Interval DEF IndicesOf
<1>2. IsFiniteSet(IndicesOf(s, kind))
  BY <1>1, FS_Subset
<1> QED BY <1>2, FS_CardinalityType DEF Count, IndicesOf

LEMMA CountAfterLog ==
  ASSUME NEW s, NEW r, NEW a, NEW kind, s.history \in Seq(Artifact),
         r.history = Append(s.history, a)
  PROVE  /\ a.kind = kind => Count(r, kind) = Count(s, kind) + 1
         /\ a.kind # kind => Count(r, kind) = Count(s, kind)
<1> DEFINE old == IndicesOf(s, kind)
           new == IndicesOf(r, kind)
<1>0. PICK n : LogsAt(s, r, a, n)
  BY IndicesAfterLog
<1>1. /\ a.kind = kind => new = old \cup {n}
      /\ a.kind # kind => new = old
      /\ n \notin old
  BY <1>0 DEF LogsAt
<1>2. IsFiniteSet(old) /\ Count(s, kind) = Cardinality(old) /\ Count(r, kind) = Cardinality(new)
  BY CountIsCardinality DEF Count, IndicesOf
<1> HIDE DEF old, new
<1>3. Cardinality(old \cup {n}) = Cardinality(old) + 1
  BY <1>1, <1>2, FS_AddElement
<1> QED BY <1>1, <1>2, <1>3

LEMMA DoneAfterLog ==
  ASSUME NEW s, NEW r, NEW a, s.history \in Seq(Artifact), r.history = Append(s.history, a)
  PROVE  /\ a.kind = "done" => Done(r) = Done(s) \cup {a.task}
         /\ a.kind # "done" => Done(r) = Done(s)
<1> DEFINE old == IndicesOf(s, "done")
           new == IndicesOf(r, "done")
<1>0. PICK n : LogsAt(s, r, a, n)
  BY IndicesAfterLog
<1>1. /\ a.kind = "done" => new = old \cup {n}
      /\ a.kind # "done" => new = old
      /\ \A i \in old : r.history[i] = s.history[i]
      /\ r.history[n] = a
  BY <1>0 DEF LogsAt
<1>2. /\ Done(s) = {s.history[i].task : i \in old}
      /\ Done(r) = {r.history[i].task : i \in new}
  BY DEF Done, IndicesOf
<1> HIDE DEF old, new
<1>3. CASE a.kind = "done"
  <2>1. new = old \cup {n}
    BY <1>1, <1>3
  <2>2. {r.history[i].task : i \in old} = {s.history[i].task : i \in old}
    BY <1>1
  <2> QED BY <1>1, <1>2, <1>3, <2>1, <2>2
<1>4. CASE a.kind # "done"
  BY <1>1, <1>2, <1>4
<1> QED BY <1>3, <1>4

-----------------------------------------------------------------------------
(* Replacing, adding and dropping one task.                                 *)

LEMMA PutReplaces ==
  ASSUME NEW s, Sound(s), OneTaskEach(s), NEW t \in s.tasks, NEW u, Id(u) = Id(t)
  PROVE  PutTask(s, u).tasks = (s.tasks \ {t}) \cup {u}
BY FieldsOfPut DEF OneTaskEach

LEMMA PutAdds ==
  ASSUME NEW s, Sound(s), NEW u, Id(u) \notin Taken(s)
  PROVE  PutTask(s, u).tasks = s.tasks \cup {u}
BY FieldsOfPut DEF Taken

LEMMA DropRemoves ==
  ASSUME NEW s, Sound(s), OneTaskEach(s), NEW t \in s.tasks
  PROVE  DropTask(s, t).tasks = s.tasks \ {t}
BY FieldsOfDrop DEF OneTaskEach

\* The tasks of a session, apart from its queue and its history.
TasksOrderly(s) == OneTaskEach(s) /\ IsFiniteSet(s.tasks) /\ AskedOnce(s)

LEMMA Replaced ==
  ASSUME NEW s, Sound(s), TasksOrderly(s), NEW t \in s.tasks, NEW u \in Task, Id(u) = Id(t),
         \/ u.request.id = 0 \/ u.request.id = t.request.id
         \/ \A w \in s.tasks : w.request.id < u.request.id,
         NEW r, r.tasks = (s.tasks \ {t}) \cup {u}
  PROVE  TasksOrderly(r) /\ Taken(r) = Taken(s)
<1>1. OneTaskEach(r) /\ Taken(r) = Taken(s)
  BY DEF TasksOrderly, OneTaskEach, Taken
<1>2. IsFiniteSet(r.tasks)
  <2>1. IsFiniteSet(s.tasks \ {t})
    BY FS_RemoveElement DEF TasksOrderly
  <2> QED BY <2>1, FS_AddElement
<1>3. AskedOnce(r)
  <2>1. \A w \in s.tasks : w.request.id \in Nat
    BY TaskIds
  <2>2. u.request.id \in Nat
    BY DEF Task, Request
  <2>3. \A v, w \in s.tasks : v.request.id > 0 /\ w.request.id = v.request.id => w = v
    BY DEF TasksOrderly, AskedOnce
  <2>4. \A w \in s.tasks : u.request.id > 0 /\ w.request.id = u.request.id => w = t
    BY <2>1, <2>2, <2>3
  <2> QED BY <2>3, <2>4 DEF AskedOnce
<1> QED BY <1>1, <1>2, <1>3 DEF TasksOrderly

LEMMA Added ==
  ASSUME NEW s, Sound(s), TasksOrderly(s), NEW u, Id(u) \notin Taken(s), u.request.id = 0,
         NEW r, r.tasks = s.tasks \cup {u}
  PROVE  TasksOrderly(r) /\ Taken(r) = Taken(s) \cup {Id(u)}
<1>1. OneTaskEach(r) /\ Taken(r) = Taken(s) \cup {Id(u)}
  BY DEF TasksOrderly, OneTaskEach, Taken
<1>2. IsFiniteSet(r.tasks)
  BY FS_AddElement DEF TasksOrderly
<1>3. AskedOnce(r)
  BY DEF TasksOrderly, AskedOnce
<1> QED BY <1>1, <1>2, <1>3 DEF TasksOrderly

LEMMA Dropped ==
  ASSUME NEW s, Sound(s), TasksOrderly(s), NEW t \in s.tasks, NEW r, r.tasks = s.tasks \ {t}
  PROVE  TasksOrderly(r) /\ Taken(r) = Taken(s) \ {Id(t)}
<1>1. OneTaskEach(r) /\ Taken(r) = Taken(s) \ {Id(t)}
  BY DEF TasksOrderly, OneTaskEach, Taken
<1>2. IsFiniteSet(r.tasks)
  BY FS_RemoveElement DEF TasksOrderly
<1>3. AskedOnce(r)
  BY DEF TasksOrderly, AskedOnce
<1> QED BY <1>1, <1>2, <1>3 DEF TasksOrderly

\* Any of the tasks of an orderly session are orderly.
LEMMA Fewer ==
  ASSUME NEW s, TasksOrderly(s), NEW r, r.tasks \subseteq s.tasks
  PROVE  TasksOrderly(r) /\ Taken(r) \subseteq Taken(s)
<1>1. IsFiniteSet(r.tasks)
  BY FS_Subset DEF TasksOrderly
<1> QED BY <1>1 DEF TasksOrderly, OneTaskEach, AskedOnce, Taken

\* What the history and the frames contribute.
LEMMA SameHistory ==
  ASSUME NEW s, NEW r, r.history = s.history
  PROVE  /\ Done(r) = Done(s)
         /\ DoneOnce(s) => DoneOnce(r)
         /\ r.frames = s.frames => (FramesCounted(s) => FramesCounted(r))
BY DEF Done, DoneOnce, IndicesOf, FramesCounted, Count

\* One artifact that is not "done" leaves what is done alone.
LEMMA OtherLogged ==
  ASSUME NEW s, NEW r, NEW a, s.history \in Seq(Artifact), r.history = Append(s.history, a),
         a.kind # "done"
  PROVE  Done(r) = Done(s) /\ (DoneOnce(s) => DoneOnce(r))
<1>1. PICK n : LogsAt(s, r, a, n)
  BY IndicesAfterLog
<1>2. /\ IndicesOf(r, "done") = IndicesOf(s, "done")
      /\ \A i \in IndicesOf(s, "done") : r.history[i] = s.history[i]
  BY <1>1 DEF LogsAt
<1>3. Done(r) = Done(s)
  BY DoneAfterLog
<1> QED BY <1>2, <1>3 DEF DoneOnce

LEMMA DoneLogged ==
  ASSUME NEW s, NEW r, NEW a, s.history \in Seq(Artifact), r.history = Append(s.history, a),
         a.kind = "done", a.task \notin Done(s), DoneOnce(s)
  PROVE  Done(r) = Done(s) \cup {a.task} /\ DoneOnce(r)
<1>1. PICK n : LogsAt(s, r, a, n)
  BY IndicesAfterLog
<1>2. /\ IndicesOf(r, "done") = IndicesOf(s, "done") \cup {n} /\ r.history[n] = a
      /\ \A i \in IndicesOf(s, "done") : r.history[i] = s.history[i]
  BY <1>1 DEF LogsAt
<1>3. Done(r) = Done(s) \cup {a.task}
  BY DoneAfterLog
<1>4. \A i \in IndicesOf(s, "done") : s.history[i].task \in Done(s)
  BY DEF Done, IndicesOf
<1> QED BY <1>2, <1>3, <1>4 DEF DoneOnce

\* The history and the frames of a session whose task is closed.
LEMMA ClosedHistory ==
  ASSUME NEW s, Sound(s), NEW t \in s.tasks, t.status # "PAUSED", t.owner = Top(s),
         Id(t) \notin Done(s), DoneOnce(s), FramesCounted(s),
         NEW r, r = ChangeFrames(SaveTaskHistory(s, t), t)
  PROVE  /\ Sound(r) /\ r.tasks = s.tasks /\ r.queue = s.queue
         /\ Done(r) = Done(s) \cup {Id(t)} /\ DoneOnce(r) /\ FramesCounted(r)
<1> DEFINE saved  == Log(s, "done", t)
           logged == LogFrameChange(saved, t)
<1>1. t \in Task /\ GoodTask(t) /\ s.history \in Seq(Artifact)
  BY TaskGood DEF Sound, Session
<1>2. SaveTaskHistory(s, t) = saved /\ Sound(saved) /\ Top(saved) = Top(s)
  BY <1>1, SaveTaskHistorySound, SaveTaskHistoryTop DEF SaveTaskHistory
<1>3. Sound(r)
  BY <1>1, <1>2, ChangeFramesSound
<1>4. /\ saved.tasks = s.tasks /\ saved.queue = s.queue /\ saved.frames = s.frames
      /\ saved.history = Append(s.history, [kind |-> "done", task |-> Id(t)])
  BY FieldsOfLog
<1>5. Done(saved) = Done(s) \cup {Id(t)} /\ DoneOnce(saved)
  BY <1>1, <1>4, DoneLogged
<1>6. Count(saved, "push") = Count(s, "push") /\ Count(saved, "pop") = Count(s, "pop")
  BY <1>1, <1>4, CountAfterLog
<1> HIDE DEF saved
<1>7. saved.history \in Seq(Artifact) /\ saved.frames \in Seq(Agents) /\ saved.frames # <<>>
  BY <1>2 DEF Sound, Session, GoodFrames
<1>8. Sound(logged)
  BY <1>1, <1>2, LogSound DEF LogFrameChange
<1>9. /\ r.frames = FramesAfter(saved, t) /\ r.history = logged.history
      /\ r.tasks = logged.tasks /\ r.queue = logged.queue
  BY <1>2, <1>8 DEF ChangeFrames, Sound, Session
<1>10. Len(saved.frames) = 1 + Count(saved, "push") - Count(saved, "pop")
  BY <1>4, <1>6, <1>7 DEF FramesCounted
<1>11. Count(saved, "push") \in Nat /\ Count(saved, "pop") \in Nat
  BY <1>7, CountIsCardinality
<1>12. ASSUME NEW kind \in {"push", "pop"}, logged = Log(saved, kind, t)
       PROVE  /\ logged.tasks = saved.tasks /\ logged.queue = saved.queue
              /\ Done(logged) = Done(saved) /\ DoneOnce(logged)
              /\ kind = "push" => /\ Count(logged, "push") = Count(saved, "push") + 1
                                 /\ Count(logged, "pop") = Count(saved, "pop")
              /\ kind = "pop"  => /\ Count(logged, "push") = Count(saved, "push")
                                 /\ Count(logged, "pop") = Count(saved, "pop") + 1
  <2> DEFINE a == [kind |-> kind, task |-> Id(t)]
  <2>1. /\ logged.tasks = saved.tasks /\ logged.queue = saved.queue
        /\ logged.history = Append(saved.history, a)
    BY <1>2, <1>12, FieldsOfLog
  <2>2. a.kind = kind /\ kind # "done"
    OBVIOUS
  <2> HIDE DEF a, logged
  <2>3. Done(logged) = Done(saved) /\ DoneOnce(logged)
    BY <1>5, <1>7, <2>1, <2>2, OtherLogged
  <2> QED BY <1>7, <2>1, <2>2, <2>3, CountAfterLog
<1>13. /\ r.tasks = saved.tasks /\ r.queue = saved.queue
       /\ Done(r) = Done(saved) /\ DoneOnce(r)
       /\ Len(r.frames) = 1 + Count(r, "push") - Count(r, "pop")
  <2>0. /\ Done(r) = Done(logged) /\ (DoneOnce(logged) => DoneOnce(r))
        /\ Count(r, "push") = Count(logged, "push") /\ Count(r, "pop") = Count(logged, "pop")
    BY <1>9, SameHistory DEF Count
  <2>1. CASE HandsOff(t)
    <3>1. ~HandsBack(t) /\ ~Reports(saved, t)
      BY <2>1 DEF HandsOff, HandsBack, Reports
    <3>2. logged = Log(saved, "push", t) /\ r.frames = Append(saved.frames, LastUnit(t).target)
      BY <1>9, <2>1, <3>1 DEF LogFrameChange, FramesAfter
    <3>3. Len(r.frames) = Len(saved.frames) + 1
      BY <1>7, <3>2
    <3> HIDE DEF logged
    <3>4. /\ logged.tasks = saved.tasks /\ logged.queue = saved.queue
          /\ Done(logged) = Done(saved) /\ DoneOnce(logged)
          /\ Count(logged, "push") = Count(saved, "push") + 1
          /\ Count(logged, "pop") = Count(saved, "pop")
      BY <1>12, <3>2
    <3> QED BY <1>9, <1>10, <1>11, <2>0, <3>3, <3>4
  <2>2. CASE ~HandsOff(t) /\ (HandsBack(t) \/ Reports(saved, t))
    <3>1. logged = Log(saved, "pop", t) /\ r.frames = SubSeq(saved.frames, 1, Len(saved.frames) - 1)
      BY <1>9, <2>2 DEF LogFrameChange, FramesAfter
    <3>2. Len(r.frames) = Len(saved.frames) - 1
      BY <1>7, <3>1
    <3> HIDE DEF logged
    <3>3. /\ logged.tasks = saved.tasks /\ logged.queue = saved.queue
          /\ Done(logged) = Done(saved) /\ DoneOnce(logged)
          /\ Count(logged, "push") = Count(saved, "push")
          /\ Count(logged, "pop") = Count(saved, "pop") + 1
      BY <1>12, <3>1
    <3> QED BY <1>9, <1>10, <1>11, <2>0, <3>2, <3>3
  <2>3. CASE ~HandsOff(t) /\ ~HandsBack(t) /\ ~Reports(saved, t)
    <3>1. logged = saved /\ r.frames = saved.frames
      BY <1>9, <2>3 DEF LogFrameChange, FramesAfter
    <3> HIDE DEF logged
    <3> QED BY <1>5, <1>9, <1>10, <2>0, <3>1
  <2> QED BY <2>1, <2>2, <2>3
<1> QED BY <1>3, <1>4, <1>5, <1>13 DEF FramesCounted

-----------------------------------------------------------------------------
(* What each way of changing a session does to its inputs, and that it keeps *)
(* the session orderly.                                                      *)

LEMMA OrderlyParts ==
  ASSUME NEW s
  PROVE  Orderly(s) <=> Apart(s) /\ TasksOrderly(s) /\ DoneOnce(s) /\ FramesCounted(s)
BY DEF Orderly, TasksOrderly

LEMMA InSession ==
  ASSUME NEW s, Sound(s)
  PROVE  /\ s.queue \in Seq(Input) /\ s.history \in Seq(Artifact) /\ s.frames \in Seq(Agents)
         /\ s.tasks \subseteq Task
BY DEF Sound, Session

\* A new input, numbered above all others, joins the queue.
LEMMA Pushed ==
  ASSUME NEW s, Sound(s), Orderly(s), NEW in \in Input, Newest(s, in),
         NEW r, r.queue = Append(s.queue, in), Taken(r) = Taken(s), Done(r) = Done(s)
  PROVE  Queued(r) = Queued(s) \cup {in.id} /\ Apart(r)
<1>1. Queued(r) = Queued(s) \cup {in.id}
  BY InSession, QueuedAfterPush
<1>2. in.id \notin Seen(s)
  BY TaskIds DEF Newest, Input
<1> QED BY <1>1, <1>2 DEF Orderly, Apart, Seen

LEMMA ContinuesOrderly ==
  ASSUME NEW s, Sound(s), Orderly(s), NEW t \in s.tasks, NEW u \in Task, Continues(t, u),
         NEW r, r = PutTask(s, u)
  PROVE  /\ r.tasks = (s.tasks \ {t}) \cup {u} /\ Taken(r) = Taken(s) /\ Id(u) = Id(t)
         /\ r.queue = s.queue /\ Done(r) = Done(s) /\ Orderly(r)
<1>1. Id(u) = Id(t) /\ u.request.id = 0
  BY DEF Continues, SameTask, Id, NoRequest
<1>2. r.queue = s.queue /\ r.history = s.history /\ r.frames = s.frames
  BY FieldsOfPut
<1>3. r.tasks = (s.tasks \ {t}) \cup {u}
  BY <1>1, PutReplaces DEF Orderly
<1>4. TasksOrderly(r) /\ Taken(r) = Taken(s)
  BY <1>1, <1>3, OrderlyParts, Replaced
<1>5. Done(r) = Done(s) /\ DoneOnce(r) /\ FramesCounted(r)
  BY <1>2, OrderlyParts, SameHistory
<1>6. Apart(r)
  BY <1>2, <1>4, <1>5, OrderlyParts DEF Apart, Queued
<1> QED BY <1>1, <1>2, <1>3, <1>4, <1>5, <1>6, OrderlyParts

LEMMA ContinuesAndAsksOrderly ==
  ASSUME NEW s, Sound(s), Orderly(s), NEW t \in s.tasks, NEW u \in Task, Continues(t, u),
         NEW in \in Input, Newest(s, in), NEW r, r = Enqueue(PutTask(s, u), in)
  PROVE  /\ r.tasks = (s.tasks \ {t}) \cup {u} /\ Taken(r) = Taken(s) /\ Id(u) = Id(t)
         /\ r.queue = Append(s.queue, in) /\ Queued(r) = Queued(s) \cup {in.id}
         /\ Done(r) = Done(s) /\ Orderly(r)
<1> DEFINE p == PutTask(s, u)
<1>1. /\ p.tasks = (s.tasks \ {t}) \cup {u} /\ Taken(p) = Taken(s) /\ Id(u) = Id(t)
      /\ p.queue = s.queue /\ Done(p) = Done(s) /\ Orderly(p)
  BY ContinuesOrderly
<1>2. /\ r.tasks = p.tasks /\ r.queue = Append(p.queue, in)
      /\ r.frames = p.frames /\ r.history = p.history
  BY DEF Sound, Session, PutTask, Enqueue
<1> HIDE DEF p
<1>3. TasksOrderly(r) /\ Taken(r) = Taken(p)
  BY <1>1, <1>2, OrderlyParts DEF TasksOrderly, OneTaskEach, AskedOnce, Taken
<1>4. Done(r) = Done(p) /\ DoneOnce(r) /\ FramesCounted(r)
  BY <1>1, <1>2, OrderlyParts, SameHistory
<1>5. Queued(r) = Queued(s) \cup {in.id} /\ Apart(r)
  BY <1>1, <1>2, <1>3, <1>4, Pushed
<1> QED BY <1>1, <1>2, <1>3, <1>4, <1>5, OrderlyParts

LEMMA PausesOrderly ==
  ASSUME NEW s, Sound(s), Orderly(s), NEW t \in s.tasks, NEW u \in Task, Pauses(s, t, u),
         NEW r, r = SaveTaskHistory(PutTask(s, u), u)
  PROVE  /\ r.tasks = (s.tasks \ {t}) \cup {u} /\ Taken(r) = Taken(s) /\ Id(u) = Id(t)
         /\ r.queue = s.queue /\ Done(r) = Done(s) /\ Orderly(r)
<1> DEFINE a == [kind |-> "paused", task |-> Id(u)]
<1>1. /\ Id(u) = Id(t) /\ \A w \in s.tasks : w.request.id < u.request.id
      /\ u.status = "PAUSED"
  BY DEF Pauses, SameTask, Id
<1>2. /\ r.tasks = PutTask(s, u).tasks /\ r.queue = s.queue /\ r.frames = s.frames
      /\ r.history = Append(s.history, a)
  BY <1>1 DEF Sound, Session, PutTask, SaveTaskHistory, Log
<1>3. r.tasks = (s.tasks \ {t}) \cup {u}
  BY <1>1, <1>2, PutReplaces DEF Orderly
<1>4. TasksOrderly(r) /\ Taken(r) = Taken(s)
  BY <1>1, <1>3, OrderlyParts, Replaced
<1>5. a.kind = "paused" /\ s.history \in Seq(Artifact)
  BY InSession
<1> HIDE DEF a
<1>6. Done(r) = Done(s) /\ DoneOnce(r)
  BY <1>2, <1>5, OrderlyParts, OtherLogged
<1>7. Count(r, "push") = Count(s, "push") /\ Count(r, "pop") = Count(s, "pop")
  BY <1>2, <1>5, CountAfterLog
<1>8. FramesCounted(r)
  BY <1>2, <1>7 DEF Orderly, FramesCounted
<1>9. Apart(r)
  BY <1>2, <1>4, <1>6, OrderlyParts DEF Apart, Queued
<1> QED BY <1>1, <1>2, <1>3, <1>4, <1>6, <1>8, <1>9, OrderlyParts

\* A task that is closed, and one that also wakes the next agent.
LEMMA ClosesOrderly ==
  ASSUME NEW s, Sound(s), Orderly(s), NEW t \in s.tasks, t.status # "PAUSED", t.owner = Top(s),
         NEW r, r = DropTask(ChangeFrames(SaveTaskHistory(s, t), t), t)
  PROVE  /\ r.tasks = s.tasks \ {t} /\ Taken(r) = Taken(s) \ {Id(t)}
         /\ r.queue = s.queue /\ Done(r) = Done(s) \cup {Id(t)} /\ Orderly(r)
<1> DEFINE c == ChangeFrames(SaveTaskHistory(s, t), t)
<1>1. Id(t) \notin Done(s) /\ Id(t) \notin Queued(s) /\ Id(t) \in Taken(s)
  BY DEF Orderly, Apart, Taken
<1>2. /\ Sound(c) /\ c.tasks = s.tasks /\ c.queue = s.queue
      /\ Done(c) = Done(s) \cup {Id(t)} /\ DoneOnce(c) /\ FramesCounted(c)
  BY <1>1, ClosedHistory DEF Orderly
<1> HIDE DEF c
<1>3. TasksOrderly(c)
  BY <1>2, OrderlyParts DEF TasksOrderly, OneTaskEach, AskedOnce
<1>4. r.queue = c.queue /\ r.history = c.history /\ r.frames = c.frames
  BY <1>2, FieldsOfDrop DEF c
<1>5. r.tasks = s.tasks \ {t}
  BY <1>2, <1>3, DropRemoves DEF c, TasksOrderly
<1>6. TasksOrderly(r) /\ Taken(r) = Taken(s) \ {Id(t)}
  BY <1>5, OrderlyParts, Dropped
<1>7. Done(r) = Done(c) /\ DoneOnce(r) /\ FramesCounted(r)
  BY <1>2, <1>4, SameHistory
<1>8. Apart(r)
  BY <1>1, <1>2, <1>4, <1>6, <1>7, OrderlyParts DEF Apart, Queued
<1> QED BY <1>2, <1>4, <1>5, <1>6, <1>7, <1>8, OrderlyParts

LEMMA ClosesAndWakesOrderly ==
  ASSUME NEW s, Sound(s), Orderly(s), NEW t \in s.tasks, t.status # "PAUSED", t.owner = Top(s),
         NEW in \in Input, Newest(s, in),
         NEW r, r = DropTask(Enqueue(ChangeFrames(SaveTaskHistory(s, t), t), in), t)
  PROVE  /\ r.tasks = s.tasks \ {t} /\ Taken(r) = Taken(s) \ {Id(t)}
         /\ r.queue = Append(s.queue, in) /\ Queued(r) = Queued(s) \cup {in.id}
         /\ Done(r) = Done(s) \cup {Id(t)} /\ Orderly(r)
<1> DEFINE c == ChangeFrames(SaveTaskHistory(s, t), t)
           d == DropTask(c, t)
<1>1. /\ d.tasks = s.tasks \ {t} /\ Taken(d) = Taken(s) \ {Id(t)}
      /\ d.queue = s.queue /\ Done(d) = Done(s) \cup {Id(t)} /\ Orderly(d)
  BY ClosesOrderly
<1>2. Id(t) \notin Done(s) /\ Id(t) \in Taken(s)
  BY DEF Orderly, Apart, Taken
<1>3. Sound(c)
  BY <1>2, ClosedHistory DEF Orderly
<1>4. Sound(d)
  BY <1>3, DropTaskSound
<1> HIDE DEF c
<1>5. /\ r.tasks = d.tasks /\ r.queue = Append(d.queue, in)
      /\ r.frames = d.frames /\ r.history = d.history
  BY <1>3 DEF Sound, Session, DropTask, Enqueue, c
<1> HIDE DEF d
<1>6. TasksOrderly(r) /\ Taken(r) = Taken(d)
  BY <1>1, <1>5, OrderlyParts DEF TasksOrderly, OneTaskEach, AskedOnce, Taken
<1>7. Done(r) = Done(d) /\ DoneOnce(r) /\ FramesCounted(r)
  BY <1>1, <1>5, OrderlyParts, SameHistory
<1>8. Newest(d, in)
  BY <1>1, <1>2 DEF Newest, Seen, Queued
<1>9. Queued(r) = Queued(d) \cup {in.id} /\ Apart(r)
  BY <1>1, <1>4, <1>5, <1>6, <1>7, <1>8, Pushed
<1>10. Queued(d) = Queued(s)
  BY <1>1 DEF Queued
<1> QED BY <1>1, <1>5, <1>6, <1>7, <1>9, <1>10, OrderlyParts

\* The head of the queue leaves it.
LEMMA PopsOrderly ==
  ASSUME NEW s, Sound(s), Orderly(s), Ordered(s.queue), s.queue # <<>>,
         NEW in, in = Head(s.queue), NEW r, r = Dequeue(s, in)
  PROVE  /\ Sound(r) /\ r.tasks = s.tasks /\ Taken(r) = Taken(s) /\ r.frames = s.frames
         /\ r.queue = Tail(s.queue) /\ Queued(r) = Queued(s) \ {in.id}
         /\ in \in Input /\ in.id \in Queued(s) /\ \A i \in Queued(s) : in.id <= i
         /\ Done(r) = Done(s) /\ Orderly(r)
<1>1. Sound(r)
  BY DequeueSound
<1>2. /\ r.tasks = s.tasks /\ r.queue = Tail(s.queue)
      /\ r.frames = s.frames /\ r.history = s.history
  BY FieldsOfPop
<1>3. /\ Queued(r) = Queued(s) \ {in.id} /\ in \in Input /\ in.id \in Queued(s)
      /\ \A i \in Queued(s) : in.id <= i
  BY <1>2, InSession, QueuedAfterPop
<1>4. TasksOrderly(r) /\ Taken(r) = Taken(s)
  BY <1>2, OrderlyParts DEF TasksOrderly, OneTaskEach, AskedOnce, Taken
<1>5. Done(r) = Done(s) /\ DoneOnce(r) /\ FramesCounted(r)
  BY <1>2, OrderlyParts, SameHistory
<1>6. Apart(r)
  BY <1>3, <1>4, <1>5, OrderlyParts DEF Apart
<1> QED BY <1>1, <1>2, <1>3, <1>4, <1>5, <1>6, OrderlyParts

LEMMA StartsOrderly ==
  ASSUME NEW s, Sound(s), Orderly(s), Ordered(s.queue), s.queue # <<>>,
         NEW in, in = Head(s.queue), NEW owner \in Agents,
         NEW r, r = PutTask(Dequeue(s, in), NewTask(in, owner))
  PROVE  /\ r.tasks = s.tasks \cup {NewTask(in, owner)} /\ Taken(r) = Taken(s) \cup {in.id}
         /\ r.queue = Tail(s.queue) /\ Queued(r) = Queued(s) \ {in.id}
         /\ Done(r) = Done(s) /\ Orderly(r)
<1> DEFINE d == Dequeue(s, in)
           u == NewTask(in, owner)
<1>1. /\ Sound(d) /\ d.tasks = s.tasks /\ Taken(d) = Taken(s)
      /\ d.queue = Tail(s.queue) /\ Queued(d) = Queued(s) \ {in.id}
      /\ in \in Input /\ in.id \in Queued(s)
      /\ Done(d) = Done(s) /\ Orderly(d)
  BY PopsOrderly
<1>2. Id(u) = in.id /\ u.request.id = 0 /\ u \in Task
  BY <1>1, NewTaskGood DEF NewTask, Id, NoRequest
<1>3. in.id \notin Taken(d) /\ in.id \notin Done(d) /\ in.id \notin Queued(d)
  BY <1>1 DEF Orderly, Apart
<1> HIDE DEF d, u
<1>4. r.queue = d.queue /\ r.history = d.history /\ r.frames = d.frames
  BY <1>1, FieldsOfPut DEF d, u
<1>5. r.tasks = d.tasks \cup {u}
  BY <1>1, <1>2, <1>3, PutAdds DEF d, u
<1>6. TasksOrderly(r) /\ Taken(r) = Taken(d) \cup {in.id}
  BY <1>1, <1>2, <1>3, <1>5, OrderlyParts, Added
<1>7. Done(r) = Done(d) /\ DoneOnce(r) /\ FramesCounted(r)
  BY <1>1, <1>4, OrderlyParts, SameHistory
<1>8. Queued(r) = Queued(d)
  BY <1>4 DEF Queued
<1>9. Apart(r)
  BY <1>1, <1>3, <1>6, <1>7, <1>8, OrderlyParts DEF Apart
<1> QED BY <1>1, <1>4, <1>5, <1>6, <1>7, <1>8, <1>9, OrderlyParts DEF u

LEMMA WakesOrderly ==
  ASSUME NEW s, Sound(s), Orderly(s), Ordered(s.queue), s.queue # <<>>,
         NEW in, in = Head(s.queue), NEW t \in s.tasks,
         NEW r, r = PutTask(Dequeue(s, in), Answered(t, in))
  PROVE  /\ r.tasks = (s.tasks \ {t}) \cup {Answered(t, in)} /\ Taken(r) = Taken(s)
         /\ Id(Answered(t, in)) = Id(t)
         /\ r.queue = Tail(s.queue) /\ Queued(r) = Queued(s) \ {in.id}
         /\ Done(r) = Done(s) /\ Orderly(r)
<1> DEFINE d == Dequeue(s, in)
           u == Answered(t, in)
<1>1. /\ Sound(d) /\ d.tasks = s.tasks /\ Taken(d) = Taken(s)
      /\ d.queue = Tail(s.queue) /\ Queued(d) = Queued(s) \ {in.id}
      /\ in \in Input /\ Done(d) = Done(s) /\ Orderly(d)
  BY PopsOrderly
<1>2. Id(u) = Id(t) /\ u.request.id = t.request.id /\ u \in Task
  <2>1. t \in Task /\ GoodTask(t)
    BY TaskGood
  <2> QED BY <1>1, <2>1, AnsweredGood DEF Answered, Id, Task, Request
<1> HIDE DEF d, u
<1>3. r.queue = d.queue /\ r.history = d.history /\ r.frames = d.frames
  BY <1>1, FieldsOfPut DEF d, u
<1>4. r.tasks = (d.tasks \ {t}) \cup {u}
  BY <1>1, <1>2, PutReplaces DEF d, u, Orderly
<1>5. TasksOrderly(r) /\ Taken(r) = Taken(d)
  BY <1>1, <1>2, <1>4, OrderlyParts, Replaced
<1>6. Done(r) = Done(d) /\ DoneOnce(r) /\ FramesCounted(r)
  BY <1>1, <1>3, OrderlyParts, SameHistory
<1>7. Queued(r) = Queued(d)
  BY <1>3 DEF Queued
<1>8. Apart(r)
  BY <1>1, <1>5, <1>6, <1>7, OrderlyParts DEF Apart
<1> QED BY <1>1, <1>2, <1>3, <1>4, <1>5, <1>6, <1>7, <1>8, OrderlyParts DEF u

\* However a handler changes a session, it stays orderly.
LEMMA HandledOrderly ==
  ASSUME NEW s, Sound(s), Orderly(s), Ordered(s.queue), NEW r, Handled(s, r)
  PROVE  Orderly(r) /\ Taken(r) \cup Done(r) \subseteq Seen(s)
<1> DEFINE Keeps == Orderly(r) /\ Taken(r) \cup Done(r) \subseteq Seen(s)
<1>0. ASSUME NEW t \in s.tasks PROVE Id(t) \in Seen(s)
  BY DEF Seen, Taken
<1>1. CASE Advanced(s, r)
  <2>1. Orderly(r) /\ Taken(r) = Taken(s) /\ Done(r) = Done(s)
    BY <1>1, ContinuesOrderly, ContinuesAndAsksOrderly DEF Advanced
  <2> QED BY <2>1 DEF Seen
<1>2. CASE Paused(s, r)
  <2>1. Orderly(r) /\ Taken(r) = Taken(s) /\ Done(r) = Done(s)
    BY <1>2, PausesOrderly DEF Paused
  <2> QED BY <2>1 DEF Seen
<1>3. CASE Closed(s, r)
  <2>1. PICK t \in s.tasks : /\ Orderly(r) /\ Taken(r) = Taken(s) \ {Id(t)}
                            /\ Done(r) = Done(s) \cup {Id(t)}
    BY <1>3, ClosesOrderly, ClosesAndWakesOrderly DEF Closed
  <2> QED BY <1>0, <2>1 DEF Seen
<1>4. CASE Popped(s, r)
  <2> DEFINE in == Head(s.queue)
  <2>1. Top(s) \in Agents /\ Awaiting(s, in.req) \subseteq s.tasks /\ s.queue # <<>>
    BY <1>4, TopIsAgent DEF Awaiting, Popped
  <2>2. in.id \in Queued(s)
    BY <2>1, PopsOrderly
  <2>3. \/ r = PutTask(Dequeue(s, in), NewTask(in, Top(s)))
        \/ r = Dequeue(s, in)
        \/ \E t \in s.tasks : r = PutTask(Dequeue(s, in), Answered(t, in))
    BY <1>4, <2>1 DEF Popped
  <2> HIDE DEF in
  <2>4. CASE r = PutTask(Dequeue(s, in), NewTask(in, Top(s)))
    <3>1. Orderly(r) /\ Taken(r) = Taken(s) \cup {in.id} /\ Done(r) = Done(s)
      BY <2>1, <2>4, StartsOrderly DEF in
    <3> QED BY <2>2, <3>1 DEF Seen
  <2>5. CASE r = Dequeue(s, in)
    <3>1. Orderly(r) /\ Taken(r) = Taken(s) /\ Done(r) = Done(s)
      BY <2>1, <2>5, PopsOrderly DEF in
    <3> QED BY <3>1 DEF Seen
  <2>6. ASSUME NEW t \in s.tasks, r = PutTask(Dequeue(s, in), Answered(t, in)) PROVE Keeps
    <3>1. Orderly(r) /\ Taken(r) = Taken(s) /\ Done(r) = Done(s)
      BY <2>1, <2>6, WakesOrderly DEF in
    <3> QED BY <3>1 DEF Seen
  <2> QED BY <2>3, <2>4, <2>5, <2>6
<1> QED BY <1>1, <1>2, <1>3, <1>4 DEF Handled

-----------------------------------------------------------------------------
(* Loading a session and cleaning it up only takes tasks and inputs away.   *)

LEMMA CleanOrderly ==
  ASSUME NEW s, Sound(s), Orderly(s)
  PROVE  /\ Orderly(CleanState(s)) /\ Seen(CleanState(s)) \subseteq Seen(s)
         /\ CleanState(s).tasks \subseteq s.tasks /\ Done(CleanState(s)) = Done(s)
         /\ CleanState(s).queue = <<>> /\ Queued(CleanState(s)) = {}
<1> DEFINE r == CleanState(s)
<1>1. /\ r.tasks \subseteq s.tasks /\ r.queue = <<>>
      /\ r.frames = s.frames /\ r.history = s.history
  BY FieldsOfClean
<1> HIDE DEF r
<1>2. TasksOrderly(r) /\ Taken(r) \subseteq Taken(s)
  BY <1>1, OrderlyParts, Fewer
<1>3. Done(r) = Done(s) /\ DoneOnce(r) /\ FramesCounted(r)
  BY <1>1, OrderlyParts, SameHistory
<1>4. Queued(r) = {}
  BY <1>1 DEF Queued
<1>5. Apart(r) /\ Seen(r) \subseteq Seen(s)
  BY <1>2, <1>3, <1>4, OrderlyParts DEF Apart, Seen
<1> QED BY <1>1, <1>2, <1>3, <1>4, <1>5, OrderlyParts DEF r

LEMMA NewSessionOrderly == Orderly(NewSession) /\ Seen(NewSession) = {}
<1>1. DOMAIN NewSession.history = {} /\ DOMAIN NewSession.queue = {}
      /\ NewSession.tasks = {} /\ NewSession.frames = <<>>
  BY DEF NewSession
<1> QED BY <1>1, FS_EmptySet DEF Orderly, Apart, OneTaskEach, DoneOnce, AskedOnce, FramesCounted,
        Queued, Taken, Done, IndicesOf, Seen

LEMMA SanitizeOrderly ==
  ASSUME NEW s, Stable(s), Orderly(s)
  PROVE  /\ Orderly(SanitizeFrames(s)) /\ Seen(SanitizeFrames(s)) = Seen(s)
         /\ SanitizeFrames(s).tasks = s.tasks /\ Done(SanitizeFrames(s)) = Done(s)
         /\ Queued(SanitizeFrames(s)) = Queued(s)
         /\ Sound(SanitizeFrames(s))
<1> DEFINE r == SanitizeFrames(s)
<1>0. Sound(r)
  BY SanitizeFramesSound
<1>1. CASE s = NewSession
  <2>1. /\ DOMAIN r.history = {} /\ DOMAIN r.queue = {} /\ r.tasks = {} /\ Len(r.frames) = 1
        /\ DOMAIN s.history = {} /\ DOMAIN s.queue = {} /\ s.tasks = {}
    BY <1>1 DEF SanitizeFrames, NewSession
  <2> HIDE DEF r
  <2>2. Count(r, "push") = 0 /\ Count(r, "pop") = 0
    BY <2>1, FS_EmptySet DEF Count
  <2>3. FramesCounted(r)
    BY <2>1, <2>2 DEF FramesCounted
  <2> QED BY <1>0, <2>1, <2>3, FS_EmptySet DEF Orderly, Apart, OneTaskEach, DoneOnce, AskedOnce,
          Queued, Taken, Done, IndicesOf, Seen, r
<1>2. CASE Sound(s)
  <2>1. r = s
    BY <1>2 DEF SanitizeFrames, Sound, GoodFrames
  <2> QED BY <1>2, <2>1
<1> QED BY <1>1, <1>2 DEF Stable

LEMMA LoadOrderly ==
  ASSUME NEW s, Stable(s), Orderly(s), NEW resume \in BOOLEAN
  PROVE  LET r == LoadSession(s, resume)
         IN  /\ Sound(r) /\ Orderly(r) /\ Seen(r) \subseteq Seen(s)
             /\ r.tasks \subseteq s.tasks /\ Done(r) = Done(s) /\ Queued(r) \subseteq Queued(s)
<1> DEFINE clean == SanitizeFrames(s)
           kept  == KeepRecentPaused(clean)
<1>1. /\ Sound(clean) /\ Orderly(clean) /\ Seen(clean) = Seen(s) /\ clean.tasks = s.tasks
      /\ Done(clean) = Done(s) /\ Queued(clean) = Queued(s)
  BY SanitizeOrderly
<1> HIDE DEF clean
<1>2. /\ kept.tasks \subseteq clean.tasks /\ kept.queue = clean.queue
      /\ kept.frames = clean.frames /\ kept.history = clean.history
      /\ Sound(kept)
  BY <1>1 DEF KeepRecentPaused, Sound, Session, GoodFrames
<1> HIDE DEF kept
<1>3. TasksOrderly(kept) /\ Taken(kept) \subseteq Taken(clean)
  BY <1>1, <1>2, OrderlyParts, Fewer
<1>4. Done(kept) = Done(clean) /\ DoneOnce(kept) /\ FramesCounted(kept)
  BY <1>1, <1>2, OrderlyParts, SameHistory
<1>5. Queued(kept) = Queued(clean)
  BY <1>2 DEF Queued
<1>6. Apart(kept) /\ Seen(kept) \subseteq Seen(clean)
  BY <1>1, <1>3, <1>4, <1>5, OrderlyParts DEF Apart, Seen
<1>7. Orderly(kept)
  BY <1>3, <1>4, <1>6, OrderlyParts
<1>8. /\ Sound(CleanState(kept)) /\ Orderly(CleanState(kept))
      /\ Seen(CleanState(kept)) \subseteq Seen(kept)
      /\ CleanState(kept).tasks \subseteq kept.tasks /\ Done(CleanState(kept)) = Done(kept)
      /\ Queued(CleanState(kept)) = {}
  BY <1>2, <1>7, CleanOrderly, CleanStateSound
<1>9. LoadSession(s, resume) \in {kept, CleanState(kept)}
  BY DEF LoadSession, kept, clean
<1> QED BY <1>1, <1>2, <1>4, <1>5, <1>6, <1>7, <1>8, <1>9

-----------------------------------------------------------------------------
(* A task whose units change.                                               *)

\* Units that were just built: each tool that needs confirmation follows its HITL
\* unit, and none has a result.
FreshUnits(units) ==
  /\ units \in Seq(Unit) /\ Paired(units)
  /\ \A k \in DOMAIN units : units[k].status = "PENDING" /\ ~units[k].ok

LEMMA FreshConcat ==
  ASSUME NEW p, NEW q, FreshUnits(p), FreshUnits(q)
  PROVE  FreshUnits(p \o q)
<1> DEFINE r == p \o q
<1>1. p \in Seq(Unit) /\ q \in Seq(Unit) /\ r \in Seq(Unit)
  BY DEF FreshUnits
<1>2. /\ Len(p) \in Nat /\ Len(q) \in Nat
      /\ DOMAIN r = 1..(Len(p) + Len(q)) /\ DOMAIN p = 1..Len(p) /\ DOMAIN q = 1..Len(q)
      /\ \A k \in 1..Len(p) : r[k] = p[k]
      /\ \A k \in (Len(p) + 1)..(Len(p) + Len(q)) : r[k] = q[k - Len(p)]
  BY <1>1
<1> HIDE DEF r
<1>3. \A k \in DOMAIN r : k \in 1..Len(p) \/ (k > Len(p) /\ k - Len(p) \in 1..Len(q))
  BY <1>2
<1>4. \A k \in DOMAIN r : r[k].status = "PENDING" /\ ~r[k].ok
  BY <1>2, <1>3 DEF FreshUnits
<1>5. ASSUME NEW k \in DOMAIN r, r[k].tool = "confirm"
      PROVE  k > 1 /\ r[k - 1].tool = "hitl"
  <2>1. CASE k \in 1..Len(p)
    <3>1. p[k].tool = "confirm"
      BY <1>2, <1>5, <2>1
    <3>2. k > 1 /\ p[k - 1].tool = "hitl"
      BY <1>2, <2>1, <3>1 DEF FreshUnits, Paired
    <3>3. k - 1 \in 1..Len(p)
      BY <1>2, <2>1, <3>2
    <3> QED BY <1>2, <3>2, <3>3
  <2>2. CASE k > Len(p) /\ k - Len(p) \in 1..Len(q)
    <3> DEFINE j == k - Len(p)
    <3>1. q[j].tool = "confirm" /\ j \in DOMAIN q
      BY <1>2, <1>5, <2>2
    <3>2. j > 1 /\ q[j - 1].tool = "hitl"
      BY <3>1 DEF FreshUnits, Paired
    <3>3. k - 1 \in (Len(p) + 1)..(Len(p) + Len(q)) /\ (k - 1) - Len(p) = j - 1 /\ k > 1
      BY <1>2, <2>2, <3>1, <3>2
    <3> HIDE DEF j
    <3>4. r[k - 1] = q[j - 1]
      BY <1>2, <3>3
    <3> QED BY <3>2, <3>3, <3>4
  <2> QED BY <1>3, <2>1, <2>2
<1> QED BY <1>1, <1>4, <1>5 DEF FreshUnits, Paired, r

LEMMA UnitsOfCallFresh ==
  ASSUME NEW c \in Call
  PROVE  FreshUnits(UnitsOfCall(c))
<1>1. /\ NewUnit("hitl", NoAgent, 0) \in Unit /\ NewUnit("confirm", NoAgent, 0) \in Unit
      /\ NewUnit(c.tool, c.target, c.req) \in Unit
  BY DEF NewUnit, Unit, Call, ToolKinds
<1>2. CASE c.tool = "confirm"
  <2>1. UnitsOfCall(c) = <<NewUnit("hitl", NoAgent, 0), NewUnit("confirm", NoAgent, 0)>>
    BY <1>2 DEF UnitsOfCall
  <2> QED BY <1>1, <2>1 DEF FreshUnits, Paired, NewUnit
<1>3. CASE c.tool # "confirm"
  <2>1. UnitsOfCall(c) = <<NewUnit(c.tool, c.target, c.req)>>
    BY <1>3 DEF UnitsOfCall
  <2> QED BY <1>1, <1>3, <2>1 DEF FreshUnits, Paired, NewUnit
<1> QED BY <1>2, <1>3

LEMMA LLMUnitFresh ==
  ASSUME NEW c \in Call
  PROVE  FreshUnits(<<LLMUnit(c)>>) /\ FreshUnits(<<>>)
<1>1. LLMUnit(c) \in Unit /\ LLMUnit(c).tool = "llm" /\ LLMUnit(c).status = "PENDING"
      /\ ~LLMUnit(c).ok
  BY DEF LLMUnit, NewUnit, Unit
<1> QED BY <1>1 DEF FreshUnits, Paired

LEMMA BuildUnitsFresh ==
  ASSUME NEW calls \in Seq(Call), calls # <<>>
  PROVE  FreshUnits(BuildUnits(calls))
<1> DEFINE close(c) == IF ChangesControl(c) THEN <<>> ELSE <<LLMUnit(c)>>
           first == UnitsOfCall(calls[1])
           final == UnitsOfCall(calls[Len(calls)])
<1>1. calls[1] \in Call /\ calls[Len(calls)] \in Call
  OBVIOUS
<1>2. /\ FreshUnits(first) /\ FreshUnits(final)
      /\ FreshUnits(close(calls[1])) /\ FreshUnits(close(calls[Len(calls)]))
  BY <1>1, UnitsOfCallFresh, LLMUnitFresh
<1>3. \/ BuildUnits(calls) = first \o close(calls[1])
      \/ BuildUnits(calls) = (first \o final) \o close(calls[Len(calls)])
  BY DEF BuildUnits
<1> HIDE DEF first, final, close
<1> QED BY <1>2, <1>3, FreshConcat

\* The unit at k gets its outcome, the others stay, new ones may follow.
LEMMA AfterUnitFields ==
  ASSUME NEW t \in Task, NEW k \in Pending(t), NEW ok \in BOOLEAN, NEW appended \in Seq(Unit),
         NEW u, u = AfterUnit(t, k, ok, appended)
  PROVE  /\ u.start = t.start /\ u.owner = t.owner /\ u.kind = t.kind
         /\ u.request = NoRequest /\ u.status # "PAUSED"
         /\ DOMAIN t.units = 1..Len(t.units) /\ Len(t.units) \in Nat
         /\ DOMAIN u.units = 1..(Len(t.units) + Len(appended))
         /\ u.units[k].tool = t.units[k].tool /\ u.units[k].req = t.units[k].req
         /\ u.units[k].status = "FINISHED" /\ u.units[k].ok = ok
         /\ \A j \in DOMAIN t.units : j # k => u.units[j] = t.units[j]
         /\ \A j \in DOMAIN u.units : j > Len(t.units) =>
               j - Len(t.units) \in DOMAIN appended /\ u.units[j] = appended[j - Len(t.units)]
<1> DEFINE old == t.units
           v == [old[k] EXCEPT !.status = "FINISHED", !.ok = ok]
           finished == [old EXCEPT ![k].status = "FINISHED", ![k].ok = ok]
           units == finished \o appended
<1>1. old \in Seq(Unit) /\ k \in DOMAIN old /\ old[k] \in Unit
  BY DEF Task, Pending
<1>2. /\ v \in Unit /\ v.tool = old[k].tool /\ v.req = old[k].req
      /\ v.status = "FINISHED" /\ v.ok = ok
  BY <1>1 DEF Unit
<1>3. finished = [old EXCEPT ![k] = v]
  BY <1>1
<1>4. u.units = units /\ u.request = NoRequest /\ u.status # "PAUSED"
      /\ u.start = t.start /\ u.owner = t.owner /\ u.kind = t.kind
  BY DEF AfterUnit, Task
<1> HIDE DEF v, finished
<1>5. /\ finished \in Seq(Unit) /\ Len(finished) = Len(old) /\ finished[k] = v
      /\ \A j \in DOMAIN old : j # k => finished[j] = old[j]
      /\ DOMAIN old = 1..Len(old) /\ Len(old) \in Nat
  BY <1>1, <1>2, <1>3
<1> HIDE DEF old
<1>6. /\ DOMAIN units = 1..(Len(old) + Len(appended)) /\ Len(appended) \in Nat
      /\ DOMAIN appended = 1..Len(appended)
      /\ \A j \in 1..Len(old) : units[j] = finished[j]
      /\ \A j \in (Len(old) + 1)..(Len(old) + Len(appended)) : units[j] = appended[j - Len(old)]
  BY <1>5
<1> HIDE DEF units
<1>7. \A j \in DOMAIN units : j > Len(old) =>
        /\ j \in (Len(old) + 1)..(Len(old) + Len(appended))
        /\ j - Len(old) \in 1..Len(appended)
  BY <1>5, <1>6
<1>8. units[k] = v
  BY <1>1, <1>5, <1>6
<1>9. \A j \in DOMAIN old : j # k => units[j] = old[j]
  BY <1>5, <1>6
<1>10. \A j \in DOMAIN units : j > Len(old) =>
         j - Len(old) \in DOMAIN appended /\ units[j] = appended[j - Len(old)]
  BY <1>6, <1>7
<1> QED BY <1>2, <1>4, <1>5, <1>6, <1>8, <1>9, <1>10 DEF old

LEMMA AfterUnitContinues ==
  ASSUME NEW t \in Task, t.status # "PAUSED", NEW k \in Pending(t), NEW ok \in BOOLEAN,
         NEW appended \in Seq(Unit), NEW u, u = AfterUnit(t, k, ok, appended)
  PROVE  Continues(t, u)
<1>1. /\ u.start = t.start /\ u.owner = t.owner
      /\ u.request = NoRequest /\ u.status # "PAUSED"
      /\ \A j \in DOMAIN t.units : j # k => u.units[j] = t.units[j]
      /\ DOMAIN t.units \subseteq DOMAIN u.units
  <2>1. Len(appended) \in Nat
    OBVIOUS
  <2> QED BY <2>1, AfterUnitFields
<1>2. k \notin Finished(t)
  BY DEF Finished, Pending
<1>3. \A j \in Finished(t) : j \in Finished(u) /\ u.units[j] = t.units[j]
  BY <1>1, <1>2 DEF Finished
<1> QED BY <1>1, <1>3 DEF Continues, SameTask

\* The results of a task stay approved when a unit ends: a HITL unit with the
\* answer to its own request, a guarded tool with a success only after its HITL unit.
LEMMA AfterUnitConfirmed ==
  ASSUME NEW t \in Task, t.kind = "TOOL", Confirmed(t), NEW k \in Pending(t),
         NEW ok \in BOOLEAN, NEW appended, FreshUnits(appended),
         t.units[k].tool = "hitl" /\ ok => t.units[k].req \in approved,
         t.units[k].tool = "confirm" /\ ok => t.units[k - 1].ok,
         NEW u, u = AfterUnit(t, k, ok, appended)
  PROVE  Confirmed(u)
<1> DEFINE n == Len(t.units)
<1>1. /\ u.kind = t.kind /\ u.request = NoRequest
      /\ DOMAIN t.units = 1..n /\ n \in Nat
      /\ DOMAIN u.units = 1..(n + Len(appended))
      /\ u.units[k].tool = t.units[k].tool /\ u.units[k].req = t.units[k].req
      /\ u.units[k].status = "FINISHED" /\ u.units[k].ok = ok
      /\ \A j \in DOMAIN t.units : j # k => u.units[j] = t.units[j]
      /\ \A j \in DOMAIN u.units : j > n =>
            j - n \in DOMAIN appended /\ u.units[j] = appended[j - n]
  BY AfterUnitFields DEF FreshUnits
<1>2. k \in 1..n /\ t.units[k].status = "PENDING" /\ Len(appended) \in Nat
      /\ DOMAIN appended = 1..Len(appended)
  BY <1>1 DEF Pending, FreshUnits
<1> HIDE DEF n
<1>3. \A j \in 1..n : u.units[j].tool = t.units[j].tool
  BY <1>1
<1>4. \A j \in DOMAIN u.units : j \in 1..n \/ j > n
  BY <1>1
<1>5. Paired(u.units)
  <2> SUFFICES ASSUME NEW j \in DOMAIN u.units, u.units[j].tool = "confirm"
               PROVE  j > 1 /\ u.units[j - 1].tool = "hitl"
    BY DEF Paired
  <2>1. CASE j \in 1..n
    <3>1. j > 1 /\ t.units[j - 1].tool = "hitl"
      BY <1>1, <1>3, <2>1 DEF Confirmed, Paired
    <3>2. j - 1 \in 1..n
      BY <1>1, <2>1, <3>1
    <3> QED BY <1>3, <3>1, <3>2
  <2>2. CASE j > n
    <3> DEFINE i == j - n
    <3>1. i \in DOMAIN appended /\ appended[i].tool = "confirm"
      BY <1>1, <2>2
    <3>2. i > 1 /\ appended[i - 1].tool = "hitl"
      BY <3>1 DEF FreshUnits, Paired
    <3>3. j - 1 \in DOMAIN u.units /\ j - 1 > n /\ (j - 1) - n = i - 1 /\ j > 1
      BY <1>1, <1>2, <3>1, <3>2
    <3> HIDE DEF i
    <3>4. u.units[j - 1] = appended[i - 1]
      BY <1>1, <3>3
    <3> QED BY <3>2, <3>3, <3>4
  <2> QED BY <1>4, <2>1, <2>2
<1>6. ASSUME NEW j \in DOMAIN u.units
      PROVE  /\ u.units[j].status = "PENDING" => ~u.units[j].ok
             /\ u.units[j].tool = "hitl" /\ u.units[j].ok => u.units[j].req \in approved
             /\ u.units[j].tool = "confirm" /\ u.units[j].ok => u.units[j - 1].ok
  <2>1. CASE j = k
    <3>1. k > 1 => k - 1 \in DOMAIN t.units /\ k - 1 # k
      BY <1>1, <1>2
    <3>2. t.units[k].tool = "confirm" => k > 1
      BY <1>1, <1>2 DEF Confirmed, Paired
    <3> QED BY <1>1, <2>1, <3>1, <3>2
  <2>2. CASE j \in 1..n /\ j # k
    <3>1. /\ u.units[j] = t.units[j]
          /\ t.units[j].status = "PENDING" => ~t.units[j].ok
          /\ t.units[j].tool = "hitl" /\ t.units[j].ok => t.units[j].req \in approved
          /\ t.units[j].tool = "confirm" /\ t.units[j].ok => t.units[j - 1].ok
      BY <1>1, <2>2 DEF Confirmed
    <3>2. ~t.units[k].ok
      BY <1>1, <1>2 DEF Confirmed
    <3>3. t.units[j].tool = "confirm" => j - 1 \in DOMAIN t.units
      BY <1>1, <2>2 DEF Confirmed, Paired
    <3> QED BY <1>1, <3>1, <3>2, <3>3
  <2>3. CASE j > n
    <3>1. j - n \in DOMAIN appended /\ u.units[j] = appended[j - n]
      BY <1>1, <2>3
    <3> QED BY <3>1 DEF FreshUnits
  <2> QED BY <1>4, <2>1, <2>2, <2>3
<1> QED BY <1>1, <1>5, <1>6 DEF Confirmed, NoRequest

\* An edited unit was pending, so nothing rests on it yet.
LEMMA EditedConfirmed ==
  ASSUME NEW t \in Task, GoodTask(t), t.kind = "TOOL", Confirmed(t), NEW k \in Pending(t),
         NEW v, NEW w, Edited(t, k, v, w)
  PROVE  Confirmed(w) /\ Finished(w) = Finished(t) /\ \A j \in Finished(t) : w.units[j] = t.units[j]
<1>1. /\ w.kind = t.kind /\ w.request = t.request /\ w.units[k] = v
      /\ DOMAIN w.units = DOMAIN t.units
      /\ \A j \in DOMAIN t.units : j # k => w.units[j] = t.units[j]
  BY EditedGood
<1>2. /\ k \in DOMAIN t.units /\ t.units[k].status = "PENDING"
      /\ v.status = "PENDING" /\ v.tool = t.units[k].tool /\ v.ok = t.units[k].ok
  BY DEF Pending, Edited
<1>3. DOMAIN t.units = 1..Len(t.units) /\ Len(t.units) \in Nat
  BY DEF Task
<1>4. ~v.ok
  BY <1>2 DEF Confirmed
<1>5. \A j \in DOMAIN t.units : /\ w.units[j].tool = t.units[j].tool
                               /\ w.units[j].ok = t.units[j].ok
                               /\ w.units[j].status = t.units[j].status
  BY <1>1, <1>2
<1>6. Finished(w) = Finished(t) /\ \A j \in Finished(t) : w.units[j] = t.units[j]
  BY <1>1, <1>2, <1>5 DEF Finished
<1>7. \A j \in DOMAIN t.units : t.units[j].tool = "confirm" => j > 1 /\ j - 1 \in DOMAIN t.units
  BY <1>3 DEF Confirmed, Paired
<1>8. Paired(w.units)
  BY <1>1, <1>5, <1>7 DEF Confirmed, Paired
<1>9. ASSUME NEW j \in DOMAIN w.units
      PROVE  /\ w.units[j].status = "PENDING" => ~w.units[j].ok
             /\ w.units[j].tool = "hitl" /\ w.units[j].ok => w.units[j].req \in approved
             /\ w.units[j].tool = "confirm" /\ w.units[j].ok => w.units[j - 1].ok
  <2>1. j \in DOMAIN t.units
    BY <1>1
  <2>2. CASE j = k
    BY <1>1, <1>4, <2>2
  <2>3. CASE j # k
    BY <1>1, <1>5, <1>7, <2>1, <2>3 DEF Confirmed
  <2> QED BY <2>2, <2>3
<1> QED BY <1>1, <1>6, <1>8, <1>9 DEF Confirmed

\* A task that is paused or answered keeps its units and what they rest on.
LEMMA InterruptedConfirmed ==
  ASSUME NEW t \in Task, Confirmed(t), t.status # "PAUSED", nextReq \in Nat \ {0}
  PROVE  /\ Confirmed(Interrupted(t)) /\ Interrupted(t).status = "PAUSED"
         /\ Interrupted(t).request = [id |-> nextReq, origin |-> t.status,
                                      answered |-> FALSE, ok |-> FALSE]
         /\ Interrupted(t).start = t.start /\ Interrupted(t).owner = t.owner
         /\ Interrupted(t).units = t.units
<1>1. /\ Interrupted(t).request = [id |-> nextReq, origin |-> t.status,
                                   answered |-> FALSE, ok |-> FALSE]
      /\ Interrupted(t).units = t.units /\ Interrupted(t).kind = t.kind
      /\ Interrupted(t).start = t.start /\ Interrupted(t).owner = t.owner
      /\ Interrupted(t).status = "PAUSED"
  BY DEF Interrupted, Task
<1> HIDE DEF Interrupted
<1> QED BY <1>1 DEF Confirmed

-----------------------------------------------------------------------------
(* Each handler of the loop is one of the ways.                             *)

\* What the lemmas on handlers establish, and all that the invariant needs of them.
HandlesTo(r) ==
  /\ AwaitCheckpoint(r) /\ Handled(live, r)
  /\ \A u \in r.tasks : u \in live.tasks \/ Held(u)'
  /\ nextReq' \in {nextReq, nextReq + 1} /\ approved \subseteq approved'

Handles == \E r : HandlesTo(r)

LEMMA StepUnfolded ==
  ASSUME IInv, QueueInv, StepInv, InLoop
  PROVE  /\ Sound(live) /\ Orderly(live) /\ Ordered(live.queue) /\ rtQueue = live.queue
         /\ \A i \in Seen(live) : i < nextInput
         /\ \A t \in live.tasks : t \in Task /\ GoodTask(t) /\ Held(t)
         /\ nextInput \in Nat /\ nextReq \in Nat \ {0}
BY Unfolded, QueueUnfolded, TaskGood DEF InLoop, StepInv, Sessions

\* Counters only grow.
LEMMA HeldMonotonic ==
  ASSUME NEW t \in Task, Held(t), nextReq \in Nat, nextReq' \in {nextReq, nextReq + 1},
         approved \subseteq approved'
  PROVE  Held(t)'
<1>1. t.request.id \in Nat
  BY DEF Task, Request
<1> QED BY <1>1 DEF Held, Settled, Confirmed

\* A task with no request and no result to answer for, or one that was interrupted.
LEMMA SettledWithoutRequest ==
  ASSUME NEW u, u.request = NoRequest, u.status # "PAUSED", nextReq' \in Nat \ {0}
  PROVE  Settled(u)'
BY DEF Settled, NoRequest

LEMMA AdvanceCompletedMessageHandles ==
  ASSUME IInv, QueueInv, StepInv, AdvanceCompletedMessage
  PROVE  Handles
<1>1. PICK t \in CompletedTasks(live) :
        /\ t.kind = "MESSAGE" /\ t.calls # <<>>
        /\ AwaitCheckpoint(PutTask(live, [t EXCEPT !.kind = "TOOL", !.status = "RUNNING",
                                                   !.calls = <<>>, !.cont = FALSE,
                                                   !.units = BuildUnits(t.calls),
                                                   !.request = NoRequest]))
  BY DEF AdvanceCompletedMessage
<1> DEFINE units == BuildUnits(t.calls)
           u == [t EXCEPT !.kind = "TOOL", !.status = "RUNNING", !.calls = <<>>,
                          !.cont = FALSE, !.units = units, !.request = NoRequest]
<1>2. InLoop /\ UNCHANGED <<nextInput, nextReq, approved>>
  BY DEF AdvanceCompletedMessage
<1>3. /\ t \in live.tasks /\ t.status = "COMPLETED" /\ t \in Task /\ Confirmed(t)
      /\ Sound(live) /\ nextReq \in Nat \ {0}
  BY <1>2, StepUnfolded DEF CompletedTasks, OwnerTasks, Held
<1>4. FreshUnits(units)
  BY <1>1, <1>3, BuildUnitsFresh DEF Task
<1>5. NoRequest \in Request /\ <<>> \in Seq(Call) /\ units \in Seq(Unit)
  BY <1>4 DEF NoRequest, Request, TaskStatus, FreshUnits
<1> HIDE DEF units
<1>6. /\ u \in Task /\ u.units = units /\ u.request = NoRequest /\ u.status = "RUNNING"
      /\ u.kind = "TOOL" /\ u.start = t.start /\ u.owner = t.owner
  BY <1>3, <1>5 DEF Task, TaskStatus
<1> HIDE DEF u
<1>7. Continues(t, u)
  <2>1. Finished(t) = {}
    BY <1>1, <1>3 DEF Finished, Confirmed
  <2> QED BY <1>3, <1>6, <2>1 DEF Continues, SameTask
<1>8. Held(u)'
  <2>1. Confirmed(u)'
    BY <1>4, <1>6 DEF Confirmed, FreshUnits, NoRequest
  <2> QED BY <1>2, <1>3, <1>6, <2>1, SettledWithoutRequest DEF Held
<1>9. AwaitCheckpoint(PutTask(live, u)) /\ Handled(live, PutTask(live, u))
  BY <1>1, <1>3, <1>6, <1>7 DEF Handled, Advanced, u, units
<1>10. \A w \in PutTask(live, u).tasks : w \in live.tasks \/ w = u
  BY <1>3, FieldsOfPut
<1> QED BY <1>2, <1>8, <1>9, <1>10 DEF Handles, HandlesTo

LEMMA AdvanceRunningMessageHandles ==
  ASSUME IInv, QueueInv, StepInv, AdvanceRunningMessage
  PROVE  Handles
<1>1. PICK t \in AvailableRunning(live), calls \in Messages(live, FALSE),
           cont \in ContinueTags(live) :
        /\ NextRunning(t) /\ t.kind = "MESSAGE"
        /\ AwaitCheckpoint(PutTask(live, [t EXCEPT !.status = "COMPLETED", !.calls = calls,
                                                   !.cont = cont, !.request = NoRequest]))
        /\ UNCHANGED <<nextInput, nextReq, approved>>
  BY DEF AdvanceRunningMessage
<1> DEFINE u == [t EXCEPT !.status = "COMPLETED", !.calls = calls, !.cont = cont,
                          !.request = NoRequest]
<1>2. /\ t \in live.tasks /\ t.status = "RUNNING" /\ t \in Task /\ Confirmed(t)
      /\ Sound(live) /\ nextReq \in Nat \ {0} /\ InLoop
  BY <1>1, StepUnfolded DEF AvailableRunning, OwnerTasks, Held, NextRunning
<1>3. calls \in Seq(Call) /\ cont \in BOOLEAN /\ NoRequest \in Request
  BY <1>2, MessagesGood, Unfolded DEF ContinueTags, NoRequest, Request, TaskStatus
<1>4. /\ u \in Task /\ u.units = t.units /\ u.request = NoRequest /\ u.status = "COMPLETED"
      /\ u.kind = t.kind /\ u.start = t.start /\ u.owner = t.owner
  BY <1>2, <1>3 DEF Task, TaskStatus
<1> HIDE DEF u
<1>5. Continues(t, u)
  BY <1>2, <1>4 DEF Continues, SameTask, Finished
<1>6. Held(u)'
  <2>1. Confirmed(u)'
    BY <1>1, <1>2, <1>4 DEF Confirmed, NoRequest
  <2> QED BY <1>1, <1>2, <1>4, <2>1, SettledWithoutRequest DEF Held
<1>7. AwaitCheckpoint(PutTask(live, u)) /\ Handled(live, PutTask(live, u))
  BY <1>1, <1>2, <1>4, <1>5 DEF Handled, Advanced, u
<1>8. \A w \in PutTask(live, u).tasks : w \in live.tasks \/ w = u
  BY <1>2, FieldsOfPut
<1> QED BY <1>1, <1>6, <1>7, <1>8 DEF Handles, HandlesTo

\* The input a handler makes is numbered above all that the live session knows of.
LEMMA NewInputNewest ==
  ASSUME IInv, QueueInv, StepInv, InLoop, NEW in, in.id = nextInput
  PROVE  Newest(live, in)
BY StepUnfolded DEF Newest

LEMMA AdvanceCompletedTaskHandles ==
  ASSUME IInv, QueueInv, StepInv, AdvanceCompletedTask
  PROVE  Handles
<1> DEFINE changed(t) == ChangeFrames(SaveTaskHistory(live, t), t)
<1>1. PICK t \in CompletedTasks(live) :
        IF HandsOff(t) \/ HandsBack(t)
        THEN AwaitCheckpoint(DropTask(Enqueue(changed(t), WakeInput(changed(t))), t))
        ELSE AwaitCheckpoint(DropTask(changed(t), t))
  BY DEF AdvanceCompletedTask
<1>2. InLoop /\ nextReq' = nextReq /\ approved' = approved
  BY DEF AdvanceCompletedTask
<1>3. /\ t \in live.tasks /\ t.status # "PAUSED" /\ t.owner = Top(live)
      /\ Sound(live) /\ Orderly(live)
  BY <1>2, StepUnfolded DEF CompletedTasks, OwnerTasks
<1>4. t \in Task /\ GoodTask(t)
  BY <1>3, TaskGood
<1> DEFINE s == changed(t)
           in == WakeInput(s)
<1>5. Sound(s) /\ s.tasks = live.tasks
  <2>1. Id(t) \notin Done(live) /\ DoneOnce(live) /\ FramesCounted(live)
    BY <1>3 DEF Orderly, Apart, Taken
  <2> QED BY <1>3, <2>1, ClosedHistory
<1>6. in \in Input /\ in.id = nextInput
  BY <1>5, TopIsAgent, NewInputType, Unfolded DEF WakeInput, NewInput
<1>7. Newest(live, in)
  BY <1>2, <1>6, NewInputNewest
<1> HIDE DEF in
<1>8. PICK r \in {DropTask(Enqueue(s, in), t), DropTask(s, t)} : AwaitCheckpoint(r)
  BY <1>1 DEF in
<1>9. Handled(live, r)
  BY <1>3, <1>6, <1>7, <1>8 DEF Handled, Closed
<1> HIDE DEF changed
<1>10. \A u \in r.tasks : u \in live.tasks
  BY <1>5, <1>6, <1>8, EnqueueSound, FieldsOfDrop, FieldsOfEnqueue
<1> QED BY <1>2, <1>8, <1>9, <1>10 DEF Handles, HandlesTo

LEMMA StartNewTaskHandles ==
  ASSUME IInv, QueueInv, StepInv, StartNewTask
  PROVE  Handles
<1>1. PICK in : /\ NextQueued(in) /\ in.kind \in {"user", "handoff"}
                /\ AwaitCheckpoint(PutTask(Dequeue(live, in), NewTask(in, Top(live))))
                /\ UNCHANGED <<nextInput, nextReq, approved>>
  BY DEF StartNewTask
<1>2. InLoop /\ rtQueue # <<>> /\ in = Head(rtQueue)
  BY <1>1 DEF NextQueued
<1>3. /\ Sound(live) /\ Orderly(live) /\ Ordered(live.queue) /\ rtQueue = live.queue
      /\ nextReq \in Nat \ {0}
  BY <1>2, StepUnfolded
<1>4. PICK u : u = NewTask(in, Top(live))
  OBVIOUS
<1> DEFINE r == PutTask(Dequeue(live, in), u)
<1>5. Handled(live, r) /\ AwaitCheckpoint(r)
  BY <1>1, <1>2, <1>3, <1>4 DEF Handled, Popped
<1>6. r.tasks = live.tasks \cup {u}
  BY <1>2, <1>3, <1>4, StartsOrderly, TopIsAgent
<1>7. Held(u)'
  <2>1. u.request = NoRequest /\ u.status = "RUNNING" /\ u.units = <<>>
    BY <1>4 DEF NewTask
  <2>2. Confirmed(u)'
    BY <2>1 DEF Confirmed, Paired, NoRequest
  <2> QED BY <1>1, <1>3, <2>1, <2>2, SettledWithoutRequest DEF Held
<1> QED BY <1>1, <1>5, <1>6, <1>7 DEF Handles, HandlesTo

LEMMA ApplyInterruptionResponseHandles ==
  ASSUME IInv, QueueInv, StepInv, ApplyInterruptionResponse
  PROVE  Handles
<1>1. PICK in :
        /\ NextQueued(in) /\ in.kind = "response"
        /\ \/ AwaitCheckpoint(Dequeue(live, in)) /\ UNCHANGED approved
           \/ \E t \in Awaiting(Dequeue(live, in), in.req) :
                /\ AwaitCheckpoint(PutTask(Dequeue(live, in), Answered(t, in)))
                /\ approved' = IF in.ok THEN approved \cup {in.req} ELSE approved
        /\ UNCHANGED nextReq
  BY DEF ApplyInterruptionResponse
<1>2. InLoop /\ rtQueue # <<>> /\ in = Head(rtQueue)
  BY <1>1 DEF NextQueued
<1>3. /\ Sound(live) /\ Orderly(live) /\ Ordered(live.queue) /\ rtQueue = live.queue
      /\ nextReq \in Nat \ {0} /\ live.queue # <<>> /\ in = Head(live.queue)
      /\ \A t \in live.tasks : t \in Task /\ GoodTask(t) /\ Held(t)
  BY <1>2, StepUnfolded
<1> DEFINE d == Dequeue(live, in)
<1>4. d.tasks = live.tasks /\ Awaiting(d, in.req) = Awaiting(live, in.req) /\ in \in Input
  BY <1>3, PopsOrderly DEF Awaiting
<1>5. CASE AwaitCheckpoint(d) /\ UNCHANGED approved
  <2>1. Handled(live, d)
    BY <1>1, <1>3 DEF Handled, Popped
  <2> QED BY <1>1, <1>4, <1>5, <2>1 DEF Handles, HandlesTo
<1>6. ASSUME NEW t \in Awaiting(live, in.req),
             AwaitCheckpoint(PutTask(d, Answered(t, in))),
             approved' = IF in.ok THEN approved \cup {in.req} ELSE approved
      PROVE  Handles
  <2> DEFINE u == Answered(t, in)
             r == PutTask(d, u)
  <2>1. t \in live.tasks /\ t.status = "PAUSED" /\ t.request.id = in.req /\ t \in Task /\ Held(t)
    BY <1>3 DEF Awaiting
  <2>2. Handled(live, r)
    BY <1>1, <1>3, <1>6 DEF Handled, Popped
  <2>3. r.tasks = (live.tasks \ {t}) \cup {u}
    BY <1>3, <2>1, WakesOrderly
  <2>4. /\ u.units = t.units /\ u.kind = t.kind /\ u.status = t.request.origin
        /\ u.request.id = in.req /\ u.request.answered /\ u.request.ok = in.ok
    BY <2>1 DEF Answered, Task, Request
  <2> HIDE DEF u
  <2>5. Settled(u)'
    <3>1. u.status # "PAUSED" /\ u.request.id < nextReq
      BY <2>1, <2>4 DEF Held, Settled
    <3> QED BY <1>1, <2>4, <3>1 DEF Settled
  <2>6. approved \subseteq approved' /\ (in.ok => in.req \in approved')
    BY <1>6
  <2>7. Confirmed(u)'
    BY <2>1, <2>4, <2>6 DEF Held, Confirmed
  <2> HIDE DEF r
  <2>8. \A w \in r.tasks : w \in live.tasks \/ Held(w)'
    BY <2>3, <2>5, <2>7 DEF Held
  <2> QED BY <1>1, <1>6, <2>2, <2>6, <2>8 DEF Handles, HandlesTo, r, u
<1> QED BY <1>1, <1>4, <1>5, <1>6

\* The task that runs next.
LEMMA RunningHeld ==
  ASSUME IInv, QueueInv, StepInv, NEW t \in AvailableRunning(live), NextRunning(t)
  PROVE  /\ InLoop /\ Sound(live) /\ t \in live.tasks /\ t.status # "PAUSED" /\ t.owner = Top(live)
         /\ t \in Task /\ GoodTask(t) /\ Held(t) /\ nextReq \in Nat \ {0}
BY StepUnfolded DEF NextRunning, AvailableRunning, OwnerTasks

\* A task that goes on and queues nothing.
LEMMA ContinuesHandles ==
  ASSUME IInv, QueueInv, StepInv, InLoop, NEW t \in live.tasks, NEW u \in Task,
         Continues(t, u), Confirmed(u), AwaitCheckpoint(PutTask(live, u)),
         UNCHANGED <<nextReq, approved>>
  PROVE  Handles
<1>1. Sound(live) /\ nextReq \in Nat \ {0}
  BY StepUnfolded
<1>2. Held(u)'
  <2>1. Confirmed(u)'
    BY DEF Confirmed
  <2>2. u.request = NoRequest /\ u.status # "PAUSED"
    BY DEF Continues
  <2> QED BY <1>1, <2>1, <2>2, SettledWithoutRequest DEF Held
<1>3. \A w \in PutTask(live, u).tasks : w \in live.tasks \/ w = u
  BY <1>1, FieldsOfPut
<1>4. Handled(live, PutTask(live, u))
  BY DEF Handled, Advanced
<1> QED BY <1>2, <1>3, <1>4 DEF Handles, HandlesTo

\* A unit that ends, with a result it may have.
LEMMA FinishedUnit ==
  ASSUME IInv, QueueInv, StepInv, NEW t \in AvailableRunning(live), NEW k \in Pending(t),
         NextRunning(t), t.kind = "TOOL", NEW ok \in BOOLEAN,
         t.units[k].tool = "return" /\ ok => t.owner # Root,
         t.units[k].tool = "hitl" /\ ok => t.units[k].req \in approved,
         t.units[k].tool = "confirm" /\ ok => t.units[k - 1].ok,
         NEW u, u = AfterUnit(t, k, ok, <<>>)
  PROVE  u \in Task /\ GoodTask(u) /\ Continues(t, u) /\ Confirmed(u)
<1>1. t \in Task /\ GoodTask(t) /\ Confirmed(t) /\ t.status # "PAUSED"
  BY RunningHeld DEF Held
<1>2. <<>> \in Seq(GoodUnits) /\ <<>> \in Seq(Unit)
  OBVIOUS
<1>3. FreshUnits(<<>>)
  BY <1>2 DEF FreshUnits, Paired
<1> QED BY <1>1, <1>2, <1>3, AfterUnitGood, AfterUnitContinues, AfterUnitConfirmed

LEMMA FinishUnitHandles ==
  ASSUME IInv, QueueInv, StepInv, NEW t \in AvailableRunning(live), NEW k \in Pending(t),
         NextRunning(t), t.kind = "TOOL", NEW ok \in BOOLEAN,
         t.units[k].tool = "return" /\ ok => t.owner # Root,
         t.units[k].tool = "hitl" /\ ok => t.units[k].req \in approved,
         t.units[k].tool = "confirm" /\ ok => t.units[k - 1].ok,
         FinishUnit(t, k, ok), UNCHANGED <<nextReq, approved>>
  PROVE  Handles
<1>1. InLoop /\ t \in live.tasks
  BY RunningHeld
<1>2. PICK u : u = AfterUnit(t, k, ok, <<>>)
  OBVIOUS
<1>3. u \in Task /\ Continues(t, u) /\ Confirmed(u)
  BY <1>2, FinishedUnit
<1> QED BY <1>1, <1>2, <1>3, ContinuesHandles DEF FinishUnit

LEMMA ExecuteResumeTaskHandles ==
  ASSUME IInv, QueueInv, StepInv, NEW t \in AvailableRunning(live), NEW k \in Pending(t),
         NextRunning(t), t.kind = "TOOL", ExecuteResumeTask(t, k)
  PROVE  Handles
<1> DEFINE req == t.units[k].req
<1>1. t.units[k].tool = "resume" /\ UNCHANGED <<nextReq, approved>>
  BY DEF ExecuteResumeTask
<1>2. CASE FinishUnit(t, k, FALSE)
  BY <1>1, <1>2, FinishUnitHandles
<1>3. ASSUME NEW ok \in Answers,
             AwaitCheckpoint(Enqueue(PutTask(live, AfterUnit(t, k, TRUE, <<>>)),
                                     NewInput("response", req, ok, NoAgent)))
      PROVE  Handles
  <2>1. /\ InLoop /\ Sound(live) /\ t \in live.tasks /\ t \in Task /\ nextReq \in Nat \ {0}
    BY RunningHeld
  <2>2. req \in Nat /\ ok \in BOOLEAN
    <3>1. t.units \in Seq(Unit) /\ k \in DOMAIN t.units
      BY <2>1 DEF Pending, Task
    <3>2. t.units[k] \in Unit
      BY <3>1
    <3> QED BY <3>2, ChoicesAreBoolean DEF Unit
  <2>3. PICK in : in = NewInput("response", req, ok, NoAgent)
    OBVIOUS
  <2>4. in \in Input /\ in.id = nextInput
    BY <2>2, <2>3, NewInputType, Unfolded DEF NewInput
  <2>5. Newest(live, in)
    BY <2>1, <2>4, NewInputNewest
  <2>6. PICK u : u = AfterUnit(t, k, TRUE, <<>>)
    OBVIOUS
  <2>7. u \in Task /\ GoodTask(u) /\ Continues(t, u) /\ Confirmed(u)
    BY <1>1, <2>6, FinishedUnit
  <2> DEFINE r == Enqueue(PutTask(live, u), in)
  <2>8. AwaitCheckpoint(r) /\ Handled(live, r)
    BY <1>3, <2>1, <2>3, <2>4, <2>5, <2>6, <2>7 DEF Handled, Advanced
  <2>9. \A w \in r.tasks : w \in live.tasks \/ w = u
    BY <2>1, <2>7, PutTaskSound, FieldsOfPut, FieldsOfEnqueue
  <2>10. Held(u)'
    <3>1. Confirmed(u)'
      BY <1>1, <2>7 DEF Confirmed
    <3>2. u.request = NoRequest /\ u.status # "PAUSED"
      BY <2>7 DEF Continues
    <3> QED BY <1>1, <2>1, <3>1, <3>2, SettledWithoutRequest DEF Held
  <2> QED BY <1>1, <2>8, <2>9, <2>10 DEF Handles, HandlesTo
<1> QED BY <1>2, <1>3 DEF ExecuteResumeTask

\* A HITL unit takes the answer of its own request, and only a positive one is one.
LEMMA ConsumeAsyncResponseHandles ==
  ASSUME IInv, QueueInv, StepInv, NEW t \in AvailableRunning(live), NEW k \in Pending(t),
         NextRunning(t), t.kind = "TOOL", ConsumeAsyncResponse(t, k)
  PROVE  Handles
<1>1. /\ t.units[k].tool \in {"async", "hitl"} /\ t.request.answered
      /\ t.request.id = t.units[k].req /\ FinishUnit(t, k, t.request.ok)
      /\ UNCHANGED <<nextReq, approved>>
  BY DEF ConsumeAsyncResponse, HasResponse
<1>2. t \in Task /\ Held(t)
  BY RunningHeld
<1>3. t.request.ok \in BOOLEAN
  BY <1>2 DEF Task, Request
<1>4. t.request.ok => t.units[k].req \in approved
  BY <1>1, <1>2 DEF Held, Confirmed
<1> QED BY <1>1, <1>3, <1>4, FinishUnitHandles

\* A unit issues a request that no task had before, and its task waits.
LEMMA IssueAsyncRequestHandles ==
  ASSUME IInv, QueueInv, StepInv, NEW t \in AvailableRunning(live), NEW k \in Pending(t),
         NextRunning(t), t.kind = "TOOL", IssueAsyncRequest(t, k)
  PROVE  Handles
<1>1. PICK asked, paused :
        /\ asked = [t EXCEPT !.units[k].req = nextReq] /\ paused = Interrupted(asked)
        /\ AwaitCheckpoint(SaveTaskHistory(PutTask(live, paused), paused))
        /\ nextReq' = nextReq + 1 /\ UNCHANGED approved
  BY DEF IssueAsyncRequest
<1>2. /\ InLoop /\ Sound(live) /\ t \in live.tasks /\ t.status # "PAUSED"
      /\ t \in Task /\ GoodTask(t) /\ Held(t) /\ nextReq \in Nat \ {0}
  BY RunningHeld
<1>3. PICK v : Edited(t, k, v, asked)
  BY <1>1, <1>2, AskingGood
<1>4. /\ asked \in Task /\ GoodTask(asked) /\ asked.owner = t.owner /\ asked.start = t.start
      /\ asked.status = t.status
  BY <1>2, <1>3, EditedGood
<1>5. /\ Confirmed(asked) /\ Finished(asked) = Finished(t)
      /\ \A j \in Finished(t) : asked.units[j] = t.units[j]
  BY <1>2, <1>3, EditedConfirmed DEF Held
<1>6. /\ Confirmed(paused) /\ paused.status = "PAUSED"
      /\ paused.request = [id |-> nextReq, origin |-> t.status, answered |-> FALSE, ok |-> FALSE]
      /\ paused.start = t.start /\ paused.owner = t.owner /\ paused.units = asked.units
  BY <1>1, <1>2, <1>4, <1>5, InterruptedConfirmed
<1>7. paused \in Task
  BY <1>1, <1>2, <1>4, InterruptedGood
<1>8. Pauses(live, t, paused)
  <2>1. \A w \in live.tasks : w.request.id < nextReq
    BY <1>2, StepUnfolded DEF Held, Settled
  <2>2. \A j \in Finished(t) : j \in Finished(paused) /\ paused.units[j] = t.units[j]
    BY <1>5, <1>6 DEF Finished
  <2> QED BY <1>2, <1>6, <2>1, <2>2 DEF Pauses, SameTask
<1> DEFINE r == SaveTaskHistory(PutTask(live, paused), paused)
<1>9. Handled(live, r)
  BY <1>2, <1>7, <1>8 DEF Handled, Paused
<1>10. r.tasks = (live.tasks \ {t}) \cup {paused}
  BY <1>2, <1>7, <1>8, StepUnfolded, PausesOrderly
<1>11. Held(paused)'
  <2>1. Settled(paused)'
    BY <1>1, <1>2, <1>6 DEF Settled
  <2>2. Confirmed(paused)'
    BY <1>1, <1>6 DEF Confirmed
  <2> QED BY <2>1, <2>2 DEF Held
<1> QED BY <1>1, <1>9, <1>10, <1>11 DEF Handles, HandlesTo

LEMMA ExecuteLLMCallHandles ==
  ASSUME IInv, QueueInv, StepInv, NEW t \in AvailableRunning(live), NEW k \in Pending(t),
         NextRunning(t), t.kind = "TOOL", ExecuteLLMCall(t, k)
  PROVE  Handles
<1>1. PICK calls \in Messages(live, t.units[k].noTools), cont \in ContinueTags(live) :
        AwaitCheckpoint(PutTask(live, AfterUnit([t EXCEPT !.units[k].cont = cont], k, TRUE,
                                  IF calls = <<>> THEN <<>> ELSE BuildUnits(calls))))
  BY DEF ExecuteLLMCall
<1>2. t.units[k].tool = "llm" /\ UNCHANGED <<nextReq, approved>> /\ cont \in BOOLEAN
  BY DEF ExecuteLLMCall, ContinueTags
<1>3. PICK asked, appended, u :
        /\ asked = [t EXCEPT !.units[k].cont = cont]
        /\ appended = IF calls = <<>> THEN <<>> ELSE BuildUnits(calls)
        /\ u = AfterUnit(asked, k, TRUE, appended)
  OBVIOUS
<1>4. /\ InLoop /\ Sound(live) /\ t \in live.tasks /\ t.status # "PAUSED"
      /\ t \in Task /\ GoodTask(t) /\ Held(t) /\ nextReq \in Nat \ {0}
  BY RunningHeld
<1>5. PICK v : Edited(t, k, v, asked)
  BY <1>2, <1>3, <1>4, ContinuingGood
<1>6. /\ asked \in Task /\ GoodTask(asked) /\ k \in Pending(asked) /\ asked.kind = "TOOL"
      /\ asked.owner = t.owner /\ asked.start = t.start /\ asked.status = t.status
      /\ asked.units[k].tool = "llm"
  BY <1>2, <1>4, <1>5, EditedGood DEF Edited
<1>7. /\ Confirmed(asked) /\ Finished(asked) = Finished(t)
      /\ \A j \in Finished(t) : asked.units[j] = t.units[j]
  BY <1>4, <1>5, EditedConfirmed DEF Held
<1>8. calls \in Seq(Call) /\ \A i \in DOMAIN calls : GoodTarget(calls[i])
  BY <1>4, MessagesGood, Unfolded
<1>9. appended \in Seq(GoodUnits) /\ FreshUnits(appended)
  <2>1. CASE calls = <<>>
    <3>1. appended = <<>> /\ <<>> \in Seq(GoodUnits) /\ <<>> \in Seq(Unit)
      BY <1>3, <2>1
    <3> QED BY <3>1 DEF FreshUnits, Paired
  <2>2. CASE calls # <<>>
    <3>1. appended = BuildUnits(calls)
      BY <1>3, <2>2
    <3> QED BY <1>8, <2>2, <3>1, BuildUnitsGood, BuildUnitsFresh
  <2> QED BY <2>1, <2>2
<1>10. u \in Task
  BY <1>3, <1>6, <1>9, AfterUnitGood
<1>11. Continues(asked, u)
  BY <1>3, <1>4, <1>6, <1>9, AfterUnitContinues DEF FreshUnits
<1>12. Confirmed(u)
  BY <1>3, <1>6, <1>7, <1>9, AfterUnitConfirmed
<1>13. Continues(t, u)
  BY <1>4, <1>6, <1>7, <1>11 DEF Continues, SameTask
<1>14. AwaitCheckpoint(PutTask(live, u))
  BY <1>1, <1>3
<1> QED BY <1>2, <1>4, <1>10, <1>12, <1>13, <1>14, ContinuesHandles

LEMMA AdvanceRunningToolHandles ==
  ASSUME IInv, QueueInv, StepInv, AdvanceRunningTool
  PROVE  Handles
<1>0. PICK t \in AvailableRunning(live) : \E k \in Pending(t) :
        /\ t.kind = "TOOL" /\ NextRunning(t)
        /\ \/ ExecuteSyncTool(t, k)
           \/ ExecuteConfirmedTool(t, k)
           \/ ExecuteHandoff(t, k)
           \/ ExecuteHandoffReturn(t, k)
           \/ ExecuteResumeTask(t, k)
           \/ ConsumeAsyncResponse(t, k)
           \/ IssueAsyncRequest(t, k)
           \/ ExecuteLLMCall(t, k)
  BY DEF AdvanceRunningTool, NextUnit
<1>1. PICK k \in Pending(t) :
        /\ t.kind = "TOOL" /\ NextRunning(t)
        /\ \/ ExecuteSyncTool(t, k)
           \/ ExecuteConfirmedTool(t, k)
           \/ ExecuteHandoff(t, k)
           \/ ExecuteHandoffReturn(t, k)
           \/ ExecuteResumeTask(t, k)
           \/ ConsumeAsyncResponse(t, k)
           \/ IssueAsyncRequest(t, k)
           \/ ExecuteLLMCall(t, k)
  BY <1>0
<1>2. CASE ExecuteSyncTool(t, k)
  BY <1>1, <1>2, FinishUnitHandles DEF ExecuteSyncTool
<1>3. CASE ExecuteConfirmedTool(t, k)
  <2>1. PICK ok \in BOOLEAN : FinishUnit(t, k, ok) /\ (ok => t.units[k - 1].ok)
    BY <1>3 DEF ExecuteConfirmedTool
  <2> QED BY <1>1, <1>3, <2>1, FinishUnitHandles DEF ExecuteConfirmedTool
<1>4. CASE ExecuteHandoff(t, k)
  BY <1>1, <1>4, FinishUnitHandles DEF ExecuteHandoff
<1>5. CASE ExecuteHandoffReturn(t, k)
  <2> DEFINE ok == Len(live.frames) >= 2
  <2>1. Sound(live) /\ t.owner = Top(live)
    BY <1>1, RunningHeld
  <2>2. ok => t.owner # Root
    BY <2>1 DEF Top, Sound, Session, GoodFrames
  <2>3. /\ t.units[k].tool = "return" /\ FinishUnit(t, k, ok)
        /\ UNCHANGED <<nextReq, approved>>
    BY <1>5 DEF ExecuteHandoffReturn
  <2>4. ok \in BOOLEAN
    OBVIOUS
  <2> HIDE DEF ok
  <2> QED BY <1>1, <2>2, <2>3, <2>4, FinishUnitHandles
<1>6. CASE ExecuteResumeTask(t, k)
  BY <1>1, <1>6, ExecuteResumeTaskHandles
<1>7. CASE ConsumeAsyncResponse(t, k)
  BY <1>1, <1>7, ConsumeAsyncResponseHandles
<1>8. CASE IssueAsyncRequest(t, k)
  BY <1>1, <1>8, IssueAsyncRequestHandles
<1>9. CASE ExecuteLLMCall(t, k)
  BY <1>1, <1>9, ExecuteLLMCallHandles
<1> QED BY <1>1, <1>2, <1>3, <1>4, <1>5, <1>6, <1>7, <1>8, <1>9

-----------------------------------------------------------------------------
(* The invariant.                                                           *)

\* A handler keeps it, whichever of the ways it takes.
LEMMA HandlesInv ==
  ASSUME IInv, QueueInv, StepInv, InLoop, Handles, IInv', QueueInv',
         nextInput' \in {nextInput, nextInput + 1}
  PROVE  StepInv'
<1>0. PICK r : HandlesTo(r)
  BY DEF Handles
<1>1. /\ AwaitCheckpoint(r) /\ Handled(live, r)
      /\ \A u \in r.tasks : u \in live.tasks \/ Held(u)'
      /\ nextReq' \in {nextReq, nextReq + 1} /\ approved \subseteq approved'
  BY <1>0 DEF HandlesTo
<1>2. /\ Sound(live) /\ Orderly(live) /\ Ordered(live.queue)
      /\ nextInput \in Nat /\ nextReq \in Nat \ {0}
  BY StepUnfolded
<1>3. live' = r /\ last' = last /\ stored' = stored
  BY <1>1 DEF AwaitCheckpoint
<1>4. ASSUME NEW s \in Sessions PROVE \A t \in s.tasks : Held(t)'
  <2>1. Stable(s)
    BY Unfolded DEF Sessions
  <2>2. s.tasks \subseteq Task
    BY <2>1 DEF Stable, NewSession, Sound, Session
  <2>3. \A t \in s.tasks : Held(t)
    BY <1>4 DEF StepInv
  <2> QED BY <1>1, <1>2, <2>2, <2>3, HeldMonotonic
<1>5. \A t \in r.tasks : Held(t)'
  BY <1>1, <1>4 DEF Sessions
<1>6. Orderly(r) /\ Taken(r) \cup Done(r) \subseteq Seen(live)
  BY <1>1, <1>2, HandledOrderly
<1>7. \A i \in Seen(r) : i < nextInput'
  <2>1. \A i \in Queued(r) : i < nextInput'
    BY <1>3, QueueUnfolded DEF QueueInv, Sessions, Below, Queued
  <2>2. \A i \in Seen(live) : i < nextInput /\ i \in Nat
    BY <1>2, StepUnfolded, TaskIds
  <2>3. \A i \in Seen(live) : i < nextInput'
    BY <1>2, <2>2
  <2> QED BY <1>6, <2>1, <2>3 DEF Seen
<1>8. ASSUME NEW s \in Sessions PROVE \A i \in Seen(s) : i < nextInput'
  <2>1. Seen(s) \subseteq Nat
    BY Unfolded, TaskIds, NewSessionOrderly DEF Sessions, Stable
  <2> QED BY <1>2, <1>8, <2>1 DEF StepInv
<1>9. \A s \in {last, stored} : Orderly(s)
  BY DEF StepInv, Sessions
<1> QED BY <1>3, <1>4, <1>5, <1>6, <1>7, <1>8, <1>9 DEF StepInv, Sessions

\* A step that only copies sessions, or takes tasks and inputs from them.
LEMMA FromOlder ==
  ASSUME IInv, StepInv, UNCHANGED <<nextInput, nextReq, approved>>,
         \A s \in Sessions' :
           Orderly(s) /\ \E r \in Sessions : Seen(s) \subseteq Seen(r) /\ s.tasks \subseteq r.tasks
  PROVE  StepInv'
<1>1. ASSUME NEW s \in Sessions'
      PROVE  /\ Orderly(s)
             /\ \A i \in Seen(s) : i < nextInput'
             /\ \A t \in s.tasks : Held(t)'
  <2>1. PICK r \in Sessions : Seen(s) \subseteq Seen(r) /\ s.tasks \subseteq r.tasks
    OBVIOUS
  <2>2. (\A i \in Seen(r) : i < nextInput) /\ \A t \in r.tasks : Held(t)
    BY DEF StepInv
  <2>3. \A t \in s.tasks : Held(t)
    BY <2>1, <2>2
  <2>4. \A t \in s.tasks : Held(t)'
    BY <2>3 DEF Held, Settled, Confirmed
  <2>5. Orderly(s)
    OBVIOUS
  <2> QED BY <2>1, <2>2, <2>4, <2>5
<1> QED BY <1>1 DEF StepInv

\* A session that is loaded, and gets the first input of its run.
LEMMA EnqueueOrderly ==
  ASSUME NEW s, Sound(s), Orderly(s), NEW in \in Input, Newest(s, in),
         NEW r, r = Enqueue(s, in)
  PROVE  /\ Orderly(r) /\ r.tasks = s.tasks /\ Done(r) = Done(s)
         /\ Queued(r) = Queued(s) \cup {in.id} /\ Seen(r) = Seen(s) \cup {in.id}
<1>1. /\ r.tasks = s.tasks /\ r.queue = Append(s.queue, in)
      /\ r.frames = s.frames /\ r.history = s.history
  BY FieldsOfEnqueue
<1>2. TasksOrderly(r) /\ Taken(r) = Taken(s)
  BY <1>1, OrderlyParts DEF TasksOrderly, OneTaskEach, AskedOnce, Taken
<1>3. Done(r) = Done(s) /\ DoneOnce(r) /\ FramesCounted(r)
  BY <1>1, OrderlyParts, SameHistory
<1>4. Queued(r) = Queued(s) \cup {in.id} /\ Apart(r)
  BY <1>1, <1>2, <1>3, Pushed
<1> QED BY <1>1, <1>2, <1>3, <1>4, OrderlyParts DEF Seen

LEMMA BeginRunInv == ASSUME IInv, StepInv, BeginRun PROVE StepInv'
<1>1. PICK resume \in Resumes, arriving \in {{}, ArrivingInputs} : StartRun(resume, arriving)
  BY DEF BeginRun
<1>2. PICK loaded : loaded = LoadSession(stored, resume)
  OBVIOUS
<1>3. /\ last' = loaded /\ stored' = stored /\ nextReq' = nextReq /\ approved' = approved
      /\ \/ live' = loaded /\ nextInput' = nextInput
         \/ \E in \in ArrivingInputs : live' = Enqueue(loaded, in) /\ nextInput' = nextInput + 1
  BY <1>1, <1>2 DEF StartRun
<1>4. /\ Sound(loaded) /\ Orderly(loaded) /\ Seen(loaded) \subseteq Seen(stored)
      /\ loaded.tasks \subseteq stored.tasks
  BY <1>2, LoadOrderly, ChoicesAreBoolean, Unfolded DEF StepInv, Sessions
<1>5. Orderly(stored)
  BY DEF StepInv, Sessions
<1>6. CASE live' = loaded /\ nextInput' = nextInput
  BY <1>3, <1>4, <1>5, <1>6, FromOlder DEF Sessions
<1>7. ASSUME NEW in \in ArrivingInputs, live' = Enqueue(loaded, in), nextInput' = nextInput + 1
      PROVE  StepInv'
  <2>1. in \in Input /\ in.id = nextInput /\ nextInput \in Nat
    BY ArrivingInputType, Unfolded DEF ArrivingInputs, NewInput
  <2>2. \A i \in Seen(stored) : i < nextInput /\ i \in Nat
    BY Unfolded, TaskIds, NewSessionOrderly DEF StepInv, Sessions, Stable
  <2>3. Newest(loaded, in)
    BY <1>4, <2>1, <2>2 DEF Newest
  <2>4. PICK r : r = Enqueue(loaded, in)
    OBVIOUS
  <2>5. Orderly(r) /\ r.tasks = loaded.tasks /\ Seen(r) = Seen(loaded) \cup {in.id}
    BY <1>4, <2>1, <2>3, <2>4, EnqueueOrderly
  <2>6. \A s \in {r, loaded, stored} : \A i \in Seen(s) : i < nextInput'
    BY <1>4, <1>7, <2>1, <2>2, <2>5
  <2>7. \A t \in stored.tasks : Held(t)'
    BY <1>3 DEF StepInv, Sessions, Held, Settled, Confirmed
  <2> QED BY <1>3, <1>4, <1>5, <1>7, <2>4, <2>5, <2>6, <2>7 DEF StepInv, Sessions
<1> QED BY <1>3, <1>6, <1>7

LEMMA CommitInv == ASSUME IInv, StepInv, CommitRuntimeCheckpoint PROVE StepInv'
<1>1. /\ live' = live /\ last' = live /\ stored' = live
      /\ UNCHANGED <<nextInput, nextReq, approved>>
  BY DEF CommitRuntimeCheckpoint
<1>2. Orderly(live)
  BY DEF StepInv, Sessions
<1> QED BY <1>1, <1>2, FromOlder DEF Sessions

\* A run that is left, or a process that is gone, goes back to the stored session.
LEMMA ForgetInv ==
  ASSUME IInv, StepInv, Forget(stored), UNCHANGED <<nextInput, nextReq, approved>>
  PROVE  StepInv'
<1>1. Orderly(stored)
  BY DEF StepInv, Sessions
<1> QED BY <1>1, FromOlder DEF Forget, Sessions

LEMMA FinishRunInv == ASSUME IInv, StepInv, FinishRun PROVE StepInv'
<1>1. PICK r : r = CleanState(live)
  OBVIOUS
<1>2. Sound(live) /\ Orderly(live)
  BY Unfolded DEF FinishRun, StepInv, Sessions
<1>3. Orderly(r) /\ Seen(r) \subseteq Seen(live) /\ r.tasks \subseteq live.tasks
  BY <1>1, <1>2, CleanOrderly
<1> QED BY <1>1, <1>3, FromOlder DEF FinishRun, Sessions

\* The task that was interrupted by an exception waits under a new request.
LEMMA PauseTaskInv ==
  ASSUME IInv, StepInv, pc # "idle", PauseTaskAfterException, UNCHANGED <<nextInput, approved>>
  PROVE  StepInv'
<1>1. CASE Forget(stored) /\ UNCHANGED nextReq
  BY <1>1, ForgetInv
<1>2. ASSUME NEW t \in Unpaused(last),
             live' = SaveTaskHistory(PutTask(last, Interrupted(t)), Interrupted(t)),
             last' = live', stored' = live', nextReq' = nextReq + 1
      PROVE  StepInv'
  <2>1. PICK u, r : u = Interrupted(t) /\ r = SaveTaskHistory(PutTask(last, u), u)
    OBVIOUS
  <2>2. /\ Sound(last) /\ Orderly(last) /\ nextReq \in Nat \ {0}
        /\ t \in last.tasks /\ t.status # "PAUSED"
    BY Unfolded DEF Unpaused, OwnerTasks, StepInv, Sessions
  <2>3. t \in Task /\ GoodTask(t) /\ Held(t) /\ \A w \in last.tasks : w \in Task /\ Held(w)
    BY <2>2, TaskGood DEF StepInv, Sessions
  <2>4. /\ Confirmed(u) /\ u.status = "PAUSED"
        /\ u.request = [id |-> nextReq, origin |-> t.status, answered |-> FALSE, ok |-> FALSE]
        /\ u.start = t.start /\ u.owner = t.owner /\ u.units = t.units /\ u \in Task
    BY <2>1, <2>2, <2>3, InterruptedConfirmed, InterruptedGood DEF Held
  <2>5. Pauses(last, t, u)
    BY <2>2, <2>3, <2>4 DEF Pauses, SameTask, Finished, Held, Settled
  <2>6. /\ r.tasks = (last.tasks \ {t}) \cup {u} /\ Taken(r) = Taken(last)
        /\ r.queue = last.queue /\ Done(r) = Done(last) /\ Orderly(r)
    BY <2>1, <2>2, <2>4, <2>5, PausesOrderly
  <2>7. Seen(r) = Seen(last)
    BY <2>6 DEF Seen, Queued
  <2>8. Held(u)'
    <3>1. Settled(u)'
      BY <1>2, <2>2, <2>4 DEF Settled
    <3>2. Confirmed(u)'
      BY <2>4 DEF Confirmed
    <3> QED BY <3>1, <3>2 DEF Held
  <2>9. \A w \in last.tasks : Held(w)'
    BY <1>2, <2>2, <2>3, HeldMonotonic
  <2>10. \A w \in r.tasks : Held(w)'
    BY <2>6, <2>8, <2>9
  <2>11. \A i \in Seen(r) : i < nextInput'
    BY <2>7 DEF StepInv, Sessions
  <2>12. Sessions' = {r}
    BY <1>2, <2>1 DEF Sessions
  <2> QED BY <2>6, <2>10, <2>11, <2>12 DEF StepInv
<1> QED BY <1>1, <1>2 DEF PauseTaskAfterException

LEMMA NextStep ==
  ASSUME IInv, QueueInv, StepInv, [Next]_vars
  PROVE  StepInv'
<1>0. IInv' /\ QueueInv' /\ nextInput \in Nat
  BY NextIInv, NextQueue, Unfolded
<1>1. CASE BeginRun
  BY <1>1, BeginRunInv
<1>2. CASE RuntimeStep
  <2>1. CASE CommitRuntimeCheckpoint
    BY <2>1, CommitInv
  <2>2. CASE AdvanceCompletedMessage
    BY <1>0, <2>2, AdvanceCompletedMessageHandles, HandlesInv DEF AdvanceCompletedMessage
  <2>3. CASE AdvanceCompletedTask
    <3>1. InLoop /\ nextInput' \in {nextInput, nextInput + 1}
      BY <2>3 DEF AdvanceCompletedTask
    <3> QED BY <1>0, <2>3, <3>1, AdvanceCompletedTaskHandles, HandlesInv
  <2>4. CASE AdvanceRunningMessage
    <3>1. InLoop /\ nextInput' = nextInput
      BY <2>4 DEF AdvanceRunningMessage, NextRunning
    <3> QED BY <1>0, <2>4, <3>1, AdvanceRunningMessageHandles, HandlesInv
  <2>5. CASE AdvanceRunningTool
    <3>1. InLoop /\ nextInput' \in {nextInput, nextInput + 1}
      BY <2>5, ZenonT(40) DEF AdvanceRunningTool, NextUnit, NextRunning, ExecuteSyncTool,
         ExecuteConfirmedTool, ExecuteHandoff, ExecuteHandoffReturn, ExecuteResumeTask,
         ConsumeAsyncResponse, IssueAsyncRequest, ExecuteLLMCall
    <3> QED BY <1>0, <2>5, <3>1, AdvanceRunningToolHandles, HandlesInv
  <2>6. CASE StartNewTask
    <3>1. InLoop /\ nextInput' = nextInput
      BY <2>6 DEF StartNewTask, NextQueued
    <3> QED BY <1>0, <2>6, <3>1, StartNewTaskHandles, HandlesInv
  <2>7. CASE ApplyInterruptionResponse
    <3>1. InLoop /\ nextInput' = nextInput
      BY <2>7 DEF ApplyInterruptionResponse, NextQueued
    <3> QED BY <1>0, <2>7, <3>1, ApplyInterruptionResponseHandles, HandlesInv
  <2>8. CASE LeaveLoop
    <3>1. \A s \in Sessions : Orderly(s)
      BY DEF StepInv
    <3> QED BY <2>8, <3>1, FromOlder DEF LeaveLoop, Sessions
  <2>9. CASE ProcessUnsupportedInput
    BY <2>9, PauseTaskInv DEF ProcessUnsupportedInput, NextQueued, InLoop
  <2>10. CASE FinishRun
    BY <2>10, FinishRunInv
  <2> QED BY <1>2, <2>1, <2>2, <2>3, <2>4, <2>5, <2>6, <2>7, <2>8, <2>9, <2>10 DEF RuntimeStep
<1>3. CASE Fail
  BY <1>3, PauseTaskInv DEF Fail
<1>4. CASE Crash
  BY <1>4, ForgetInv DEF Crash
<1>5. CASE UNCHANGED vars
  <2>1. \A s \in Sessions : Orderly(s)
    BY DEF StepInv
  <2> QED BY <1>5, <2>1, FromOlder DEF vars, Sessions
<1> QED BY <1>1, <1>2, <1>3, <1>4, <1>5 DEF Next

-----------------------------------------------------------------------------
(* What the invariant says of the sessions.                                 *)

LEMMA InitStep == Init => StepInv
<1> SUFFICES ASSUME Init PROVE StepInv
  OBVIOUS
<1>1. Sessions = {NewSession}
  BY DEF Init, Sessions
<1>2. NewSession.tasks = {}
  BY DEF NewSession
<1> QED BY <1>1, <1>2, NewSessionOrderly DEF StepInv

\* A function that tells the members of a finite set apart has as many values.
LEMMA ImageCounted ==
  ASSUME NEW S, IsFiniteSet(S), NEW f, DOMAIN f = S, f = [x \in S |-> f[x]],
         \A x, y \in S : f[x] = f[y] => x = y
  PROVE  Cardinality({f[x] : x \in S}) = Cardinality(S)
<1> DEFINE T == {f[x] : x \in S}
<1>1. f \in [S -> T]
  OBVIOUS
<1>2. f \in Bijection(S, T)
  BY <1>1 DEF Bijection, Injection, IsInjective, Surjection
<1> QED BY <1>2, FS_Bijection DEF ExistsBijection

\* An input is in one place only, and a finished one is recorded once.
LEMMA OrderlyPlaces ==
  ASSUME NEW s, Sound(s), Orderly(s), Ordered(s.queue)
  PROVE  /\ Cardinality(Taken(s)) = Cardinality(s.tasks)
         /\ Cardinality(Done(s)) = Count(s, "done")
         /\ Cardinality(Queued(s)) = Len(s.queue)
<1>1. Cardinality(Taken(s)) = Cardinality(s.tasks)
  <2> DEFINE S == s.tasks
             f == [t \in S |-> Id(t)]
  <2>1. \A t, u \in S : f[t] = f[u] => t = u
    BY DEF Orderly, OneTaskEach
  <2>2. Taken(s) = {f[t] : t \in S}
    BY DEF Taken
  <2>3. DOMAIN f = S /\ f = [t \in S |-> f[t]] /\ IsFiniteSet(S)
    BY DEF Orderly
  <2> HIDE DEF f, S
  <2>4. Cardinality({f[t] : t \in S}) = Cardinality(S)
    BY <2>1, <2>3, ImageCounted
  <2> QED BY <2>2, <2>4 DEF S
<1>2. Cardinality(Done(s)) = Count(s, "done")
  <2> DEFINE S == IndicesOf(s, "done")
             f == [i \in S |-> s.history[i].task]
  <2>1. \A i, j \in S : f[i] = f[j] => i = j
    BY DEF Orderly, DoneOnce
  <2>2. Done(s) = {f[i] : i \in S}
    BY DEF Done, IndicesOf
  <2>3. IsFiniteSet(S) /\ Count(s, "done") = Cardinality(S)
    BY InSession, CountIsCardinality
  <2>4. DOMAIN f = S /\ f = [i \in S |-> f[i]]
    OBVIOUS
  <2> HIDE DEF f, S
  <2> QED BY <2>1, <2>2, <2>3, <2>4, ImageCounted
<1>3. Cardinality(Queued(s)) = Len(s.queue)
  <2> DEFINE S == 1..Len(s.queue)
             f == [i \in S |-> s.queue[i].id]
  <2>1. s.queue \in Seq(Input) /\ Len(s.queue) \in Nat /\ DOMAIN s.queue = S
    BY InSession
  <2>2. \A i \in S : s.queue[i].id \in Nat
    BY <2>1, IdsAreNat
  <2>3. \A i, j \in S : i < j => s.queue[i].id < s.queue[j].id
    BY <2>1 DEF Ordered
  <2>4. \A i, j \in S : f[i] = f[j] => i = j
    <3> SUFFICES ASSUME NEW i \in S, NEW j \in S, s.queue[i].id = s.queue[j].id PROVE i = j
      OBVIOUS
    <3>1. i \in Nat /\ j \in Nat
      BY <2>1
    <3> HIDE DEF S
    <3>2. ~(i < j) /\ ~(j < i)
      BY <2>2, <2>3
    <3> QED BY <3>1, <3>2
  <2>5. Queued(s) = {f[i] : i \in S}
    BY <2>1 DEF Queued
  <2>6. IsFiniteSet(S) /\ Cardinality(S) = Len(s.queue)
    BY <2>1, FS_Interval
  <2>7. DOMAIN f = S /\ f = [i \in S |-> f[i]]
    OBVIOUS
  <2> HIDE DEF f, S
  <2> QED BY <2>4, <2>5, <2>6, <2>7, ImageCounted
<1> QED BY <1>1, <1>2, <1>3

-----------------------------------------------------------------------------
(* The theorems.                                                            *)

\* The sessions a run works on, rolls back to and stores are orderly in every
\* state of every behaviour, and so are their tasks.
THEOREM StepInvariant == Spec => [](IInv /\ QueueInv /\ StepInv)
<1>1. Init => IInv /\ QueueInv /\ StepInv
  BY InitIInv, InitStep, EmptyOrdered
     DEF Init, NewSession, QueueInv, QueueMirror, Sessions
<1>2. IInv /\ QueueInv /\ StepInv /\ [Next]_vars => (IInv /\ QueueInv /\ StepInv)'
  BY NextIInv, NextQueue, NextStep
<1> QED BY <1>1, <1>2, PTL DEF Spec

\* A paused task awaits its answer, a task that goes on does not, and no two tasks
\* of a session wait for the same request: a response wakes at most one task.
THEOREM PausedTasksAwait == Spec => []PausedAwaitsResponse
<1>1. StepInv => PausedAwaitsResponse
  BY DEF StepInv, PausedAwaitsResponse, Orderly, AskedOnce, Held, Settled
<1> QED BY <1>1, StepInvariant, PTL

\* However many agents, tools, pauses, rollbacks and crashes: a session never holds
\* an input twice, neither queued and taken, nor taken and done, nor done twice.
THEOREM PlacedOnce == Spec => []OnePlace
<1>1. ASSUME IInv, QueueInv, StepInv PROVE OnePlace
  <2> SUFFICES ASSUME NEW s \in Sessions
               PROVE  /\ Apart(s)
                      /\ Cardinality(Taken(s)) = Cardinality(s.tasks)
                      /\ Cardinality(Done(s)) = Count(s, "done")
                      /\ Cardinality(Queued(s)) = Len(s.queue)
    BY DEF OnePlace, Apart
  <2>1. Orderly(s) /\ Apart(s) /\ Ordered(s.queue) /\ Stable(s)
    BY <1>1, QueueUnfolded, Unfolded DEF StepInv, Orderly, Sessions
  <2>2. CASE Sound(s)
    BY <2>1, <2>2, OrderlyPlaces
  <2>3. CASE s = NewSession
    <3>1. /\ Taken(s) = {} /\ Done(s) = {} /\ Queued(s) = {} /\ s.tasks = {} /\ Len(s.queue) = 0
          /\ {i \in DOMAIN s.history : s.history[i].kind = "done"} = {}
      BY <2>3 DEF NewSession, Taken, Done, Queued
    <3> QED BY <2>1, <3>1, FS_EmptySet DEF Count
  <2> QED BY <2>1, <2>2, <2>3 DEF Stable
<1>2. IInv /\ QueueInv /\ StepInv => OnePlace
  BY <1>1
<1> QED BY <1>2, StepInvariant, PTL

\* A tool that needs confirmation succeeds only after its own request was answered
\* positively.
THEOREM ConfirmedFirst == Spec => []ApprovedBeforeRun
<1>1. ASSUME IInv, StepInv PROVE ApprovedBeforeRun
  <2> SUFFICES ASSUME NEW t \in live.tasks, NEW k \in DOMAIN t.units,
                      t.units[k].tool = "confirm", t.units[k].ok
               PROVE  k > 1 /\ t.units[k - 1].tool = "hitl" /\ t.units[k - 1].req \in approved
    BY DEF ApprovedBeforeRun
  <2>1. Confirmed(t)
    BY <1>1 DEF StepInv, Sessions, Held
  <2>2. live.tasks \subseteq Task
    BY <1>1, Unfolded DEF Stable, NewSession, Sound, Session
  <2>3. DOMAIN t.units = 1..Len(t.units) /\ Len(t.units) \in Nat
    BY <2>2 DEF Task
  <2>4. k > 1 /\ t.units[k - 1].tool = "hitl" /\ t.units[k - 1].ok
    BY <2>1 DEF Confirmed, Paired
  <2>5. k - 1 \in DOMAIN t.units
    BY <2>3, <2>4
  <2> QED BY <2>1, <2>4, <2>5 DEF Confirmed
<1>2. IInv /\ QueueInv /\ StepInv => ApprovedBeforeRun
  BY <1>1
<1> QED BY <1>2, StepInvariant, PTL

\* The pushes and pops recorded in the history of a session add up to its frames,
\* in the live session, in the rollback copy and in the store.
THEOREM FramesExplained == Spec => []FramesFollowHistory
<1>1. StepInv => FramesFollowHistory
  BY DEF StepInv, FramesFollowHistory, Orderly, FramesCounted
<1> QED BY <1>1, StepInvariant, PTL
-----------------------------------------------------------------------------
(***************************************************************************)
(* What the store shows of a session from one checkpoint to the next: a    *)
(* finished unit is never run again, no input is lost, a paused task goes  *)
(* on only by its answer, and the whole is a behaviour of InputLedger.     *)
(*                                                                         *)
(* None of these is a property of one state.  What makes them provable is  *)
(* that the live session is never more than one handler ahead of the store *)
(* and that the rollback copy is never behind it: CheckpointInv.  So every *)
(* step that writes the store writes the outcome of a load, of one handler,*)
(* of one pause after an exception, or of the clean-up of the run.         *)
(***************************************************************************)

\* What the head of a run makes of a stored session.
Loaded(s, l) == \E resume \in BOOLEAN : l = LoadSession(s, resume)

Began(s, l, r) ==
  /\ Loaded(s, l)
  /\ r = l \/ \E in \in Input : Newest(s, in) /\ r = Enqueue(l, in)

\* The live session, the rollback copy and the store.
CheckpointInv ==
  /\ pc \in {"idle", "loop", "finishing"} => live = stored /\ last = stored
  /\ pc = "saving" => last = stored /\ Handled(stored, live)
  /\ pc = "starting" => Began(stored, last, live)

LInv == IInv /\ QueueInv /\ StepInv /\ CheckpointInv

IsOpen(c) == c \in {"loop", "saving", "finishing"}

\* How the stored session changes in a step, and which run that step belongs to.
Written(s, r) ==
  \/ r = s /\ (pc' = "idle" \/ IsOpen(pc') = IsOpen(pc))
  \/ /\ pc = "starting" /\ pc' \in {"loop", "finishing"}
     /\ \E l : /\ Loaded(s, l)
               /\ \/ pc' = "loop" /\ Began(s, l, r)
                  \/ pc' = "finishing" /\ Paused(l, r)
  \/ /\ pc \in {"loop", "saving"} /\ pc' \in {"loop", "finishing"}
     /\ Handled(s, r)
  \/ /\ pc = "finishing" /\ pc' = "idle"
     /\ r = CleanState(s)

-----------------------------------------------------------------------------
(* The live session is at most one handler ahead of the store.              *)

\* The handlers of the loop.
LoopStep ==
  \/ AdvanceCompletedMessage \/ AdvanceCompletedTask
  \/ AdvanceRunningMessage \/ AdvanceRunningTool
  \/ StartNewTask \/ ApplyInterruptionResponse

LEMMA LoopStepHandles ==
  ASSUME IInv, QueueInv, StepInv, LoopStep
  PROVE  Handles /\ InLoop
<1>1. Handles
  BY AdvanceCompletedMessageHandles, AdvanceCompletedTaskHandles, AdvanceRunningMessageHandles,
     AdvanceRunningToolHandles, StartNewTaskHandles, ApplyInterruptionResponseHandles DEF LoopStep
<1>2. InLoop
  BY DEF LoopStep, AdvanceCompletedMessage, AdvanceCompletedTask, AdvanceRunningMessage,
     AdvanceRunningTool, NextUnit, NextRunning, StartNewTask, ApplyInterruptionResponse, NextQueued
<1> QED BY <1>1, <1>2

\* What an exception makes of the last checkpoint.
LEMMA PauseIsPaused ==
  ASSUME IInv, StepInv, pc # "idle", NEW t \in Unpaused(last),
         NEW r, r = SaveTaskHistory(PutTask(last, Interrupted(t)), Interrupted(t))
  PROVE  Paused(last, r)
<1>1. PICK u : u = Interrupted(t)
  OBVIOUS
<1>2. /\ Sound(last) /\ nextReq \in Nat \ {0} /\ t \in last.tasks /\ t.status # "PAUSED"
  BY Unfolded DEF Unpaused, OwnerTasks
<1>3. t \in Task /\ GoodTask(t) /\ Held(t) /\ \A w \in last.tasks : Held(w)
  BY <1>2, TaskGood DEF StepInv, Sessions
<1>4. /\ u.status = "PAUSED"
      /\ u.request = [id |-> nextReq, origin |-> t.status, answered |-> FALSE, ok |-> FALSE]
      /\ u.start = t.start /\ u.owner = t.owner /\ u.units = t.units /\ u \in Task
  BY <1>1, <1>2, <1>3, InterruptedConfirmed, InterruptedGood DEF Held
<1>5. Pauses(last, t, u)
  BY <1>2, <1>3, <1>4 DEF Pauses, SameTask, Finished, Held, Settled
<1> QED BY <1>1, <1>2, <1>4, <1>5 DEF Paused

\* The head of a run.
LEMMA BeginRunBegan ==
  ASSUME IInv, StepInv, BeginRun
  PROVE  pc = "idle" /\ pc' = "starting" /\ stored' = stored /\ Began(stored, last', live')
<1>1. PICK resume \in Resumes, arriving \in {{}, ArrivingInputs} : StartRun(resume, arriving)
  BY DEF BeginRun
<1>2. /\ last' = LoadSession(stored, resume) /\ stored' = stored
      /\ pc = "idle" /\ pc' = "starting"
      /\ live' = last' \/ \E in \in ArrivingInputs : live' = Enqueue(last', in)
  BY <1>1 DEF StartRun
<1>3. resume \in BOOLEAN
  BY ChoicesAreBoolean
<1>4. \A in \in ArrivingInputs : in \in Input /\ Newest(stored, in)
  <2> SUFFICES ASSUME NEW in \in ArrivingInputs PROVE in \in Input /\ Newest(stored, in)
    OBVIOUS
  <2>1. in \in Input /\ in.id = nextInput
    BY ArrivingInputType, Unfolded DEF ArrivingInputs, NewInput
  <2> QED BY <2>1 DEF Newest, StepInv, Sessions
<1> QED BY <1>2, <1>3, <1>4 DEF Began, Loaded

LEMMA NextCheckpoint ==
  ASSUME LInv, [Next]_vars
  PROVE  CheckpointInv' /\ Written(stored, stored')
<1>0. IInv /\ QueueInv /\ StepInv /\ CheckpointInv
  BY DEF LInv
<1>1. CASE BeginRun
  BY <1>0, <1>1, BeginRunBegan DEF CheckpointInv, Written, IsOpen
<1>2. CASE CommitRuntimeCheckpoint
  <2>1. /\ pc \in {"starting", "saving"} /\ pc' = "loop"
        /\ live' = live /\ stored' = live /\ last' = live
    BY <1>2 DEF CommitRuntimeCheckpoint
  <2>2. Written(stored, live)
    BY <1>0, <2>1 DEF CheckpointInv, Written, Began
  <2> QED BY <2>1, <2>2 DEF CheckpointInv
<1>3. CASE LoopStep
  <2>1. PICK r : AwaitCheckpoint(r) /\ Handled(live, r)
    BY <1>0, <1>3, LoopStepHandles DEF Handles, HandlesTo
  <2>2. pc = "loop" /\ live = stored /\ last = stored
    BY <1>0, <1>3, LoopStepHandles DEF CheckpointInv, InLoop
  <2> QED BY <2>1, <2>2 DEF AwaitCheckpoint, CheckpointInv, Written, IsOpen
<1>4. CASE LeaveLoop
  BY <1>0, <1>4 DEF LeaveLoop, InLoop, CheckpointInv, Written, IsOpen
<1>5. CASE FinishRun
  BY <1>0, <1>5 DEF FinishRun, CheckpointInv, Written, IsOpen
<1>6. CASE Forget(stored)
  BY <1>6 DEF Forget, CheckpointInv, Written, IsOpen
<1>7. ASSUME pc \in {"starting", "loop", "saving"}, PauseTaskAfterException
      PROVE  CheckpointInv' /\ Written(stored, stored')
  <2>1. CASE Forget(stored)
    BY <1>6, <2>1
  <2>2. ASSUME NEW t \in Unpaused(last),
               live' = SaveTaskHistory(PutTask(last, Interrupted(t)), Interrupted(t)),
               last' = live', stored' = live', pc' = "finishing"
        PROVE  CheckpointInv' /\ Written(stored, stored')
    <3>1. Paused(last, stored')
      BY <1>0, <1>7, <2>2, PauseIsPaused
    <3>2. CASE pc = "starting"
      BY <1>0, <2>2, <3>1, <3>2 DEF CheckpointInv, Written, Began
    <3>3. CASE pc \in {"loop", "saving"}
      <4>1. last = stored
        BY <1>0, <3>3 DEF CheckpointInv
      <4> QED BY <2>2, <3>1, <3>3, <4>1 DEF CheckpointInv, Written, Handled
    <3> QED BY <1>7, <3>2, <3>3
  <2> QED BY <1>7, <2>1, <2>2 DEF PauseTaskAfterException
<1>8. CASE ProcessUnsupportedInput
  BY <1>7, <1>8 DEF ProcessUnsupportedInput, NextQueued, InLoop
<1>9. CASE Fail
  BY <1>7, <1>9 DEF Fail
<1>10. CASE Crash
  BY <1>6, <1>10 DEF Crash
<1>11. CASE UNCHANGED vars
  BY <1>0, <1>11 DEF vars, CheckpointInv, Written, IsOpen
<1> QED BY <1>1, <1>2, <1>3, <1>4, <1>5, <1>8, <1>9, <1>10, <1>11 DEF Next, RuntimeStep, LoopStep

\* The store, the rollback copy and the live session stay that close together.
THEOREM CheckpointInvariant == Spec => []LInv
<1>1. Init => LInv
  BY InitIInv, InitStep, EmptyOrdered
     DEF Init, NewSession, QueueInv, QueueMirror, Sessions, LInv, CheckpointInv
<1>2. LInv /\ [Next]_vars => LInv'
  BY NextIInv, NextQueue, NextStep, NextCheckpoint DEF LInv
<1> QED BY <1>1, <1>2, PTL DEF Spec

-----------------------------------------------------------------------------
(* What one handler does to the tasks and the inputs of a session.          *)

Swapped(s, r, t, u) ==
  /\ r.tasks = (s.tasks \ {t}) \cup {u} /\ Id(u) = Id(t)
  /\ Taken(r) = Taken(s) /\ Done(r) = Done(s)

\* At most one input joins the queue, after all that the session knows of.
MayPush(s, r) ==
  r.queue = s.queue \/ \E in \in Input : Newest(s, in) /\ r.queue = Append(s.queue, in)

\* A task goes on, is paused, or ends.
Worked(s, r) ==
  /\ \E t \in s.tasks, u \in r.tasks : Swapped(s, r, t, u) /\ SameTask(t, u) /\ u.status # "PAUSED"
  /\ MayPush(s, r)

Halted(s, r) ==
  /\ \E t \in s.tasks, u \in r.tasks : Swapped(s, r, t, u) /\ SameTask(t, u) /\ u.status = "PAUSED"
  /\ r.queue = s.queue

Ended(s, r) ==
  /\ \E t \in s.tasks :
       /\ t.status # "PAUSED"
       /\ r.tasks = s.tasks \ {t}
       /\ Taken(r) = Taken(s) \ {Id(t)} /\ Done(r) = Done(s) \cup {Id(t)}
  /\ MayPush(s, r)

\* The head of the queue starts a task, awaits nothing, or wakes a paused task.
Pops(s, r) == s.queue # <<>> /\ r.queue = Tail(s.queue)

Started(s, r) ==
  /\ Pops(s, r)
  /\ \E u : /\ Id(u) = Head(s.queue).id /\ u.status # "PAUSED"
            /\ r.tasks = s.tasks \cup {u} /\ Done(r) = Done(s)

Skipped(s, r) ==
  Pops(s, r) /\ Head(s.queue).kind = "response" /\ r.tasks = s.tasks /\ Done(r) = Done(s)

Woken(s, r) ==
  /\ Pops(s, r) /\ Head(s.queue).kind = "response"
  /\ \E t \in s.tasks :
       /\ t.status = "PAUSED" /\ t.request.origin # "PAUSED"
       /\ Swapped(s, r, t, Answered(t, Head(s.queue)))

Ways(s, r) ==
  Worked(s, r) \/ Halted(s, r) \/ Ended(s, r) \/ Started(s, r) \/ Skipped(s, r) \/ Woken(s, r)

\* A session on which a handler may work.
Ready(s) ==
  /\ Sound(s) /\ Orderly(s) /\ Ordered(s.queue)
  /\ \A t \in s.tasks : t.status = "PAUSED" => t.request.origin # "PAUSED"

LEMMA AdvancedWays ==
  ASSUME NEW s, Ready(s), NEW r, Advanced(s, r)
  PROVE  Worked(s, r)
<1>1. PICK t \in s.tasks, u \in Task :
        /\ Continues(t, u)
        /\ \/ r = PutTask(s, u)
           \/ \E in \in Input : Newest(s, in) /\ r = Enqueue(PutTask(s, u), in)
  BY DEF Advanced
<1>2. Sound(s) /\ Orderly(s)
  BY DEF Ready
<1>3. CASE r = PutTask(s, u)
  <2>1. Swapped(s, r, t, u) /\ r.queue = s.queue
    BY <1>1, <1>2, <1>3, ContinuesOrderly DEF Swapped
  <2> QED BY <1>1, <2>1 DEF Continues, Worked, MayPush, Swapped
<1>4. ASSUME NEW in \in Input, Newest(s, in), r = Enqueue(PutTask(s, u), in) PROVE Worked(s, r)
  <2>1. Swapped(s, r, t, u) /\ r.queue = Append(s.queue, in)
    BY <1>1, <1>2, <1>4, ContinuesAndAsksOrderly DEF Swapped
  <2> QED BY <1>1, <1>4, <2>1 DEF Continues, Worked, MayPush, Swapped
<1> QED BY <1>1, <1>3, <1>4

LEMMA PausedWays ==
  ASSUME NEW s, Sound(s), Orderly(s), NEW r, Paused(s, r)
  PROVE  Halted(s, r)
<1>1. PICK t \in s.tasks, u \in Task :
        Pauses(s, t, u) /\ r = SaveTaskHistory(PutTask(s, u), u)
  BY DEF Paused
<1>2. Swapped(s, r, t, u) /\ r.queue = s.queue
  BY <1>1, PausesOrderly DEF Swapped
<1> QED BY <1>1, <1>2 DEF Pauses, Halted, Swapped

LEMMA ClosedWays ==
  ASSUME NEW s, Ready(s), NEW r, Closed(s, r)
  PROVE  Ended(s, r)
<1>1. PICK t \in s.tasks :
        /\ t.status # "PAUSED" /\ t.owner = Top(s)
        /\ \/ r = DropTask(ChangeFrames(SaveTaskHistory(s, t), t), t)
           \/ \E in \in Input :
                /\ Newest(s, in)
                /\ r = DropTask(Enqueue(ChangeFrames(SaveTaskHistory(s, t), t), in), t)
  BY DEF Closed
<1>2. Sound(s) /\ Orderly(s)
  BY DEF Ready
<1>3. CASE r = DropTask(ChangeFrames(SaveTaskHistory(s, t), t), t)
  <2>1. /\ r.tasks = s.tasks \ {t} /\ Taken(r) = Taken(s) \ {Id(t)}
        /\ r.queue = s.queue /\ Done(r) = Done(s) \cup {Id(t)}
    BY <1>1, <1>2, <1>3, ClosesOrderly
  <2> QED BY <1>1, <2>1 DEF Ended, MayPush
<1>4. ASSUME NEW in \in Input, Newest(s, in),
             r = DropTask(Enqueue(ChangeFrames(SaveTaskHistory(s, t), t), in), t)
      PROVE  Ended(s, r)
  <2>1. /\ r.tasks = s.tasks \ {t} /\ Taken(r) = Taken(s) \ {Id(t)}
        /\ r.queue = Append(s.queue, in) /\ Done(r) = Done(s) \cup {Id(t)}
    BY <1>1, <1>2, <1>4, ClosesAndWakesOrderly
  <2> QED BY <1>1, <1>4, <2>1 DEF Ended, MayPush
<1> QED BY <1>1, <1>3, <1>4

LEMMA PoppedWays ==
  ASSUME NEW s, Ready(s), NEW r, Popped(s, r)
  PROVE  Started(s, r) \/ Skipped(s, r) \/ Woken(s, r)
<1>1. PICK in : in = Head(s.queue)
  OBVIOUS
<1>2. /\ Sound(s) /\ Orderly(s) /\ Ordered(s.queue) /\ s.queue # <<>>
      /\ \A t \in s.tasks : t.status = "PAUSED" => t.request.origin # "PAUSED"
  BY DEF Ready, Popped
<1>3. \/ r = PutTask(Dequeue(s, in), NewTask(in, Top(s)))
      \/ in.kind = "response" /\ r = Dequeue(s, in)
      \/ /\ in.kind = "response"
         /\ \E t \in Awaiting(s, in.req) : r = PutTask(Dequeue(s, in), Answered(t, in))
  BY <1>1 DEF Popped
<1>4. CASE r = PutTask(Dequeue(s, in), NewTask(in, Top(s)))
  <2>1. PICK u : u = NewTask(in, Top(s))
    OBVIOUS
  <2>2. r.tasks = s.tasks \cup {u} /\ r.queue = Tail(s.queue) /\ Done(r) = Done(s)
    BY <1>1, <1>2, <1>4, <2>1, StartsOrderly, TopIsAgent
  <2>3. Id(u) = in.id /\ u.status # "PAUSED"
    BY <2>1 DEF NewTask, Id
  <2> QED BY <1>1, <1>2, <2>2, <2>3 DEF Started, Pops
<1>5. CASE in.kind = "response" /\ r = Dequeue(s, in)
  <2>1. r.tasks = s.tasks /\ r.queue = Tail(s.queue) /\ Done(r) = Done(s)
    BY <1>1, <1>2, <1>5, PopsOrderly
  <2> QED BY <1>1, <1>2, <1>5, <2>1 DEF Skipped, Pops
<1>6. ASSUME NEW t \in Awaiting(s, in.req), in.kind = "response",
             r = PutTask(Dequeue(s, in), Answered(t, in))
      PROVE  Woken(s, r)
  <2>1. t \in s.tasks /\ t.status = "PAUSED" /\ t.request.origin # "PAUSED"
    BY <1>2, <1>6 DEF Awaiting
  <2>2. Swapped(s, r, t, Answered(t, in)) /\ r.queue = Tail(s.queue)
    BY <1>1, <1>2, <1>6, <2>1, WakesOrderly DEF Swapped
  <2> QED BY <1>1, <1>2, <1>6, <2>1, <2>2 DEF Woken, Pops
<1> QED BY <1>3, <1>4, <1>5, <1>6

LEMMA HandledWays ==
  ASSUME NEW s, Ready(s), NEW r, Handled(s, r)
  PROVE  Ways(s, r)
BY AdvancedWays, PausedWays, ClosedWays, PoppedWays DEF Handled, Ways, Ready

\* The stored session is one on which a handler may work, whenever one does.
LEMMA StoredReady ==
  ASSUME LInv
  PROVE  /\ Orderly(stored) /\ Ordered(stored.queue) /\ Stable(stored)
         /\ pc \in {"loop", "saving", "finishing"} => Ready(stored)
<1>1. IInv /\ QueueInv /\ StepInv /\ CheckpointInv
  BY DEF LInv
<1>2. Orderly(stored) /\ Ordered(stored.queue) /\ Stable(stored)
      /\ \A t \in stored.tasks : t.status = "PAUSED" => t.request.origin # "PAUSED"
  BY <1>1, Unfolded DEF QueueInv, StepInv, Sessions, Held, Settled
<1>3. pc \in {"loop", "saving", "finishing"} => Sound(stored)
  BY <1>1, Unfolded DEF CheckpointInv
<1> QED BY <1>2, <1>3 DEF Ready

\* Loading a session keeps tasks of it as they are.
LEMMA LoadedKeeps ==
  ASSUME NEW s, Stable(s), Orderly(s), NEW l, Loaded(s, l)
  PROVE  /\ Sound(l) /\ Orderly(l) /\ Seen(l) \subseteq Seen(s) /\ l.tasks \subseteq s.tasks
         /\ Done(l) = Done(s) /\ Queued(l) \subseteq Queued(s)
BY LoadOrderly DEF Loaded

LEMMA BeganKeeps ==
  ASSUME NEW s, Stable(s), Orderly(s), NEW l, NEW r, Began(s, l, r)
  PROVE  /\ Loaded(s, l) /\ r.tasks = l.tasks /\ Done(r) = Done(l)
         /\ \/ Queued(r) = Queued(l)
            \/ \E in \in Input : Newest(s, in) /\ Queued(r) = Queued(l) \cup {in.id}
<1>1. Loaded(s, l) /\ Sound(l) /\ Orderly(l) /\ Seen(l) \subseteq Seen(s)
  BY LoadedKeeps DEF Began
<1>2. CASE r = l
  BY <1>1, <1>2
<1>3. ASSUME NEW in \in Input, Newest(s, in), r = Enqueue(l, in)
      PROVE  r.tasks = l.tasks /\ Done(r) = Done(l) /\ Queued(r) = Queued(l) \cup {in.id}
  <2>1. Newest(l, in)
    BY <1>1, <1>3 DEF Newest
  <2> QED BY <1>1, <1>3, <2>1, EnqueueOrderly
<1> QED BY <1>1, <1>2, <1>3 DEF Began

-----------------------------------------------------------------------------
(* Tasks from one checkpoint to the next.                                   *)

\* A task is as it was, went on or was paused, or was answered.
Successor(t, u) ==
  u = t \/ SameTask(t, u) \/ (t.status = "PAUSED" /\ \E in \in Input : u = Answered(t, in))

Succeeds(s, r) == \A t \in s.tasks, u \in r.tasks : Id(u) = Id(t) => Successor(t, u)

LEMMA WaysSucceed ==
  ASSUME NEW s, Ready(s), NEW r, Ways(s, r)
  PROVE  Succeeds(s, r)
<1>1. Sound(s) /\ Orderly(s) /\ OneTaskEach(s)
  BY DEF Ready, Orderly
<1>2. ASSUME NEW t \in s.tasks, NEW u, Swapped(s, r, t, u), Successor(t, u)
      PROVE  Succeeds(s, r)
  BY <1>1, <1>2 DEF Swapped, Succeeds, Successor, OneTaskEach
<1>3. CASE Worked(s, r)
  BY <1>2, <1>3 DEF Worked, Successor
<1>4. CASE Halted(s, r)
  BY <1>2, <1>4 DEF Halted, Successor
<1>5. CASE Ended(s, r)
  BY <1>1, <1>5 DEF Ended, Succeeds, Successor, OneTaskEach
<1>6. CASE Started(s, r)
  <2>1. PICK u : Id(u) = Head(s.queue).id /\ r.tasks = s.tasks \cup {u} /\ s.queue # <<>>
    BY <1>6 DEF Started, Pops
  <2>2. Head(s.queue).id \in Queued(s)
    <3>1. s.queue \in Seq(Input)
      BY <1>1, InSession
    <3>2. 1 \in DOMAIN s.queue /\ Head(s.queue) = s.queue[1]
      BY <2>1, <3>1
    <3> QED BY <3>2 DEF Queued
  <2>3. Id(u) \notin Taken(s)
    BY <1>1, <2>1, <2>2 DEF Orderly, Apart
  <2> QED BY <1>1, <2>1, <2>3 DEF Succeeds, Successor, OneTaskEach, Taken
<1>7. CASE Skipped(s, r)
  BY <1>1, <1>7 DEF Skipped, Succeeds, Successor, OneTaskEach
<1>8. CASE Woken(s, r)
  <2>1. Head(s.queue) \in Input
    <3>1. s.queue \in Seq(Input) /\ s.queue # <<>>
      BY <1>1, <1>8, InSession DEF Woken, Pops
    <3> QED BY <3>1
  <2> QED BY <1>2, <1>8, <2>1 DEF Woken, Successor
<1> QED BY <1>3, <1>4, <1>5, <1>6, <1>7, <1>8 DEF Ways

LEMMA KeepsSucceed ==
  ASSUME NEW s, Orderly(s), NEW r, r.tasks \subseteq s.tasks
  PROVE  Succeeds(s, r)
BY DEF Orderly, OneTaskEach, Succeeds, Successor

\* Whatever a step writes to the store.
LEMMA WrittenSucceeds ==
  ASSUME LInv, Written(stored, stored')
  PROVE  Succeeds(stored, stored')
<1>1. Orderly(stored) /\ Stable(stored)
  BY StoredReady
<1>2. PICK s, r : s = stored /\ r = stored'
  OBVIOUS
<1>3. CASE r = s
  BY <1>1, <1>2, <1>3, KeepsSucceed
<1>4. CASE pc \in {"loop", "saving"} /\ Handled(s, r)
  BY <1>2, <1>4, StoredReady, HandledWays, WaysSucceed
<1>5. CASE pc = "finishing" /\ r = CleanState(s)
  <2>1. Sound(s)
    BY <1>2, <1>5, StoredReady DEF Ready
  <2>2. r.tasks \subseteq s.tasks
    BY <1>5, <2>1, FieldsOfClean
  <2> QED BY <1>1, <1>2, <2>2, KeepsSucceed
<1>6. ASSUME NEW l, Began(s, l, r) PROVE Succeeds(s, r)
  <2>1. r.tasks \subseteq s.tasks
    BY <1>1, <1>2, <1>6, BeganKeeps, LoadedKeeps
  <2> QED BY <1>1, <1>2, <2>1, KeepsSucceed
<1>7. ASSUME NEW l, Loaded(s, l), Paused(l, r) PROVE Succeeds(s, r)
  <2>1. Sound(l) /\ Orderly(l) /\ l.tasks \subseteq s.tasks
    BY <1>1, <1>2, <1>7, LoadedKeeps
  <2>2. PICK t \in l.tasks, u \in r.tasks : r.tasks = (l.tasks \ {t}) \cup {u} /\ Id(u) = Id(t) /\ SameTask(t, u)
    BY <1>7, <2>1, PausedWays DEF Halted, Swapped
  <2> QED BY <1>1, <1>2, <2>1, <2>2 DEF Succeeds, Successor, Orderly, OneTaskEach
<1> QED BY <1>2, <1>3, <1>4, <1>5, <1>6, <1>7 DEF Written

\* A unit whose result was checkpointed keeps it in every later checkpoint: no
\* exception, pause, crash or resumed run makes the runtime execute it again.
THEOREM FinishedStays == Spec => FinishedUnitsStay
<1>1. ASSUME LInv, [Next]_vars
      PROVE  [\A t \in stored.tasks, u \in stored'.tasks :
                Id(u) = Id(t) => \A k \in Finished(t) : k \in Finished(u) /\ u.units[k] = t.units[k]]_vars
  <2> SUFFICES ASSUME NEW t \in stored.tasks, NEW u \in stored'.tasks, Id(u) = Id(t)
               PROVE  \A k \in Finished(t) : k \in Finished(u) /\ u.units[k] = t.units[k]
    OBVIOUS
  <2>1. Successor(t, u)
    BY <1>1, NextCheckpoint, WrittenSucceeds DEF Succeeds
  <2>2. t \in Task
    BY <1>1, StoredReady DEF Stable, NewSession, Sound, Session
  <2>3. CASE u = t
    BY <2>3
  <2>4. CASE SameTask(t, u)
    BY <2>4 DEF SameTask
  <2>5. ASSUME NEW in, u = Answered(t, in)
        PROVE  \A k \in Finished(t) : k \in Finished(u) /\ u.units[k] = t.units[k]
    <3>1. u.units = t.units
      BY <2>2, <2>5 DEF Answered, Task
    <3> QED BY <3>1 DEF Finished
  <2> QED BY <2>1, <2>3, <2>4, <2>5 DEF Successor
<1> QED BY <1>1, CheckpointInvariant, PTL DEF Spec, FinishedUnitsStay

\* A stored paused task changes only when its own request is answered, and then goes
\* back to the status it was paused in.
THEOREM AnswerWakes == Spec => OnlyResponseWakes
<1>1. ASSUME LInv, [Next]_vars
      PROVE  [\A t \in stored.tasks, u \in stored'.tasks :
                Id(u) = Id(t) /\ t.status = "PAUSED" /\ u # t =>
                  \E ok \in BOOLEAN :
                    u = [t EXCEPT !.status = t.request.origin,
                                  !.request.answered = TRUE, !.request.ok = ok]]_vars
  <2> SUFFICES ASSUME NEW t \in stored.tasks, NEW u \in stored'.tasks,
                      Id(u) = Id(t), t.status = "PAUSED", u # t
               PROVE  \E ok \in BOOLEAN :
                        u = [t EXCEPT !.status = t.request.origin,
                                      !.request.answered = TRUE, !.request.ok = ok]
    OBVIOUS
  <2>1. Successor(t, u)
    BY <1>1, NextCheckpoint, WrittenSucceeds DEF Succeeds
  <2>2. PICK in \in Input : u = Answered(t, in)
    BY <2>1 DEF Successor, SameTask
  <2>3. in.ok \in BOOLEAN
    BY DEF Input
  <2> QED BY <2>2, <2>3 DEF Answered
<1> QED BY <1>1, CheckpointInvariant, PTL DEF Spec, OnlyResponseWakes

-----------------------------------------------------------------------------
(* Paused tasks and inputs from one checkpoint to the next.                 *)

PausedKept(s, r) == \A t \in s.tasks : t.status = "PAUSED" => Id(t) \in Taken(r)

LEMMA WaysKeepPaused ==
  ASSUME NEW s, Ready(s), NEW r, Ways(s, r)
  PROVE  PausedKept(s, r)
<1>1. \A t \in s.tasks : Id(t) \in Taken(s)
  BY DEF Taken
<1>2. CASE Taken(r) = Taken(s)
  BY <1>1, <1>2 DEF PausedKept
<1>3. CASE Ended(s, r)
  BY <1>1, <1>3 DEF Ended, PausedKept, Ready, Orderly, OneTaskEach
<1>4. CASE Started(s, r)
  BY <1>4 DEF Started, PausedKept, Taken
<1>5. CASE Skipped(s, r)
  BY <1>5 DEF Skipped, PausedKept, Taken
<1> QED BY <1>2, <1>3, <1>4, <1>5 DEF Ways, Worked, Halted, Woken, Swapped

\* The clean-up of a run keeps every paused task, a load only those among the
\* newest of their agent.
LEMMA CleanKeepsPaused ==
  ASSUME NEW s, Sound(s)
  PROVE  PausedKept(s, CleanState(s))
BY FieldsOfClean DEF PausedKept, Taken

LEMMA LoadDrops ==
  ASSUME NEW s, Stable(s), Orderly(s), NEW l, Loaded(s, l),
         NEW t \in s.tasks, t.status = "PAUSED", Id(t) \notin Taken(l)
  PROVE  Cardinality(PausedAfter(s, t)) >= PausedLimit
<1>1. s # NewSession /\ Sound(s)
  BY DEF NewSession, Stable
<1>2. SanitizeFrames(s) = s
  BY <1>1 DEF SanitizeFrames, Sound, GoodFrames
<1>3. PICK kept : kept = KeepRecentPaused(s)
  OBVIOUS
<1>4. /\ kept.tasks = {u \in s.tasks : u.status = "PAUSED" =>
                                          Cardinality(PausedAfter(s, u)) < PausedLimit}
      /\ Sound(kept)
  BY <1>1, <1>3 DEF KeepRecentPaused, Sound, Session, GoodFrames
<1>5. l = kept \/ l = CleanState(kept)
  BY <1>2, <1>3 DEF Loaded, LoadSession
<1>6. t \notin kept.tasks
  BY <1>4, <1>5, CleanKeepsPaused DEF PausedKept, Taken
<1>7. ~(Cardinality(PausedAfter(s, t)) < PausedLimit)
  BY <1>4, <1>6
<1>8. Cardinality(PausedAfter(s, t)) \in Nat
  <2>1. IsFiniteSet(s.tasks) /\ PausedAfter(s, t) \subseteq s.tasks
    BY DEF Orderly, PausedAfter
  <2> QED BY <2>1, FS_Subset, FS_CardinalityType
<1> QED BY <1>7, <1>8, BoundsAreNat

LEMMA WrittenKeepsPaused ==
  ASSUME LInv, Written(stored, stored'), NEW t \in stored.tasks, t.status = "PAUSED",
         Id(t) \notin Taken(stored')
  PROVE  pc = "starting" /\ Cardinality(PausedAfter(stored, t)) >= PausedLimit
<1>1. Orderly(stored) /\ Stable(stored)
  BY StoredReady
<1>2. PICK s, r : s = stored /\ r = stored'
  OBVIOUS
<1>3. t \in s.tasks /\ Id(t) \notin Taken(r) /\ Stable(s) /\ Orderly(s)
  BY <1>1, <1>2
<1>4. ~PausedKept(s, r)
  BY <1>3 DEF PausedKept
<1>5. r # s
  BY <1>3 DEF Taken
<1>6. ~(pc \in {"loop", "saving"} /\ Handled(s, r))
  BY <1>2, <1>4, StoredReady, HandledWays, WaysKeepPaused
<1>7. ~(pc = "finishing" /\ r = CleanState(s))
  <2> SUFFICES ASSUME pc = "finishing", r = CleanState(s) PROVE FALSE
    OBVIOUS
  <2>1. Sound(s)
    BY <1>2, StoredReady DEF Ready
  <2> QED BY <1>4, <2>1, CleanKeepsPaused
<1>8. pc = "starting" /\ \E l : Loaded(s, l) /\ (Began(s, l, r) \/ Paused(l, r))
  BY <1>2, <1>5, <1>6, <1>7 DEF Written
<1>9. PICK l : Loaded(s, l) /\ (Began(s, l, r) \/ Paused(l, r))
  BY <1>8
<1>10. Taken(l) \subseteq Taken(r)
  <2>1. CASE Began(s, l, r)
    BY <1>3, <2>1, BeganKeeps DEF Taken
  <2>2. CASE Paused(l, r)
    BY <1>3, <1>9, <2>2, LoadedKeeps, PausedWays DEF Halted, Swapped
  <2> QED BY <1>9, <2>1, <2>2
<1> QED BY <1>2, <1>3, <1>8, <1>9, <1>10, LoadDrops

\* A paused task is dropped when a session is loaded that has PausedLimit newer ones
\* of the same agent, and at no other time.
THEOREM PausedSurvives == Spec => PausedTaskSurvives
<1>1. ASSUME LInv, [Next]_vars
      PROVE  [\A t \in stored.tasks :
                t.status = "PAUSED" /\ Id(t) \notin Taken(stored') =>
                  pc = "starting" /\ Cardinality(PausedAfter(stored, t)) >= PausedLimit]_vars
  BY <1>1, NextCheckpoint, WrittenKeepsPaused
<1> QED BY <1>1, CheckpointInvariant, PTL DEF Spec, PausedTaskSurvives

\* The inputs of a queue that are no responses, when one joins or the head leaves.
Work(s) == {s.queue[i].id : i \in {j \in DOMAIN s.queue : s.queue[j].kind # "response"}}

LEMMA WorkAfterPush ==
  ASSUME NEW s, Sound(s), NEW r, MayPush(s, r)
  PROVE  Work(s) \subseteq Work(r)
<1>1. s.queue \in Seq(Input)
  BY InSession
<1>2. \A i \in DOMAIN s.queue : i \in DOMAIN r.queue /\ r.queue[i] = s.queue[i]
  <2>1. CASE r.queue = s.queue
    BY <2>1
  <2>2. ASSUME NEW in \in Input, r.queue = Append(s.queue, in)
        PROVE  \A i \in DOMAIN s.queue : i \in DOMAIN r.queue /\ r.queue[i] = s.queue[i]
    BY <1>1, <2>2
  <2> QED BY <2>1, <2>2 DEF MayPush
<1> QED BY <1>2 DEF Work

LEMMA WorkAfterPop ==
  ASSUME NEW s, Sound(s), NEW r, Pops(s, r)
  PROVE  /\ Work(s) \subseteq Work(r) \cup {Head(s.queue).id}
         /\ Head(s.queue).kind = "response" => Work(s) \subseteq Work(r)
<1> DEFINE q == s.queue
           n == Len(q)
<1>1. /\ q \in Seq(Input) /\ q # <<>> /\ r.queue = Tail(q)
  BY InSession DEF Pops
<1>2. /\ n \in Nat /\ n > 0 /\ DOMAIN q = 1..n /\ Head(q) = q[1]
      /\ DOMAIN Tail(q) = 1..(n - 1) /\ \A i \in 1..(n - 1) : Tail(q)[i] = q[i + 1]
  BY <1>1
<1> HIDE DEF q, n
<1>3. ASSUME NEW i \in 1..n, i # 1, q[i].kind # "response" PROVE q[i].id \in Work(r)
  <2>1. i - 1 \in 1..(n - 1) /\ (i - 1) + 1 = i
    BY <1>2, <1>3
  <2>2. r.queue[i - 1] = q[i] /\ i - 1 \in DOMAIN r.queue
    BY <1>1, <1>2, <2>1
  <2> QED BY <1>3, <2>2 DEF Work
<1>4. Work(s) = {q[i].id : i \in {j \in 1..n : q[j].kind # "response"}}
  BY <1>2 DEF Work, q
<1> QED BY <1>2, <1>3, <1>4 DEF q

LEMMA WaysKeepInputs ==
  ASSUME NEW s, Ready(s), NEW r, Ways(s, r)
  PROVE  Inputs(s) \subseteq Inputs(r)
<1>1. Sound(s)
  BY DEF Ready
<1>2. \A q : Inputs(q) = Taken(q) \cup Done(q) \cup Work(q)
  BY DEF Inputs, Taken, Work
<1>3. CASE Worked(s, r)
  BY <1>1, <1>2, <1>3, WorkAfterPush DEF Worked, Swapped
<1>4. CASE Halted(s, r)
  BY <1>1, <1>2, <1>4, WorkAfterPush DEF Halted, Swapped, MayPush
<1>5. CASE Ended(s, r)
  BY <1>1, <1>2, <1>5, WorkAfterPush DEF Ended
<1>6. CASE Started(s, r)
  <2>1. Taken(s) \cup {Head(s.queue).id} \subseteq Taken(r) /\ Done(r) = Done(s) /\ Pops(s, r)
    BY <1>6 DEF Started, Taken
  <2> QED BY <1>1, <1>2, <2>1, WorkAfterPop
<1>7. CASE Skipped(s, r)
  <2>1. Taken(r) = Taken(s)
    BY <1>7 DEF Skipped, Taken
  <2> QED BY <1>1, <1>2, <1>7, <2>1, WorkAfterPop DEF Skipped
<1>8. CASE Woken(s, r)
  BY <1>1, <1>2, <1>8, WorkAfterPop DEF Woken, Swapped
<1> QED BY <1>3, <1>4, <1>5, <1>6, <1>7, <1>8 DEF Ways

\* Between the first checkpoint of a run and its end every input that was stored is
\* still queued, held by a task, or done.
THEOREM InputsKept == Spec => NoInputLost
<1>1. ASSUME LInv, [Next]_vars
      PROVE  [(pc \in {"loop", "saving"}) => (Inputs(stored) \subseteq Inputs(stored'))]_vars
  <2> SUFFICES ASSUME pc \in {"loop", "saving"} PROVE Inputs(stored) \subseteq Inputs(stored')
    OBVIOUS
  <2>1. stored' = stored \/ Handled(stored, stored')
    BY <1>1, NextCheckpoint DEF Written
  <2>2. CASE stored' = stored
    BY <2>2
  <2>3. CASE Handled(stored, stored')
    BY <1>1, <2>3, StoredReady, HandledWays, WaysKeepInputs
  <2> QED BY <2>1, <2>2, <2>3
<1> QED BY <1>1, CheckpointInvariant, PTL DEF Spec, NoInputLost


-----------------------------------------------------------------------------
(* The store is a ledger of inputs.                                         *)

Act(s) == IdsOf({t \in s.tasks : t.status # "PAUSED"})
Asleep(s) == IdsOf({t \in s.tasks : t.status = "PAUSED"})

Unmoved(s, r) == Act(r) = Act(s) /\ Asleep(r) = Asleep(s)

\* At most one input is new, and it is numbered above all that were seen.
Joins(s, r) ==
  \E W : /\ Queued(r) \subseteq Queued(s) \cup W
         /\ W = {} \/ \E in : Newest(s, in) /\ W = {in.id}

Oldest(s, i) == i \in Queued(s) /\ \A j \in Queued(s) : i <= j

\* The four ways of a handler, and what they are in the ledger.
Pushes(s, r) == Queued(s) \subseteq Queued(r) /\ Joins(s, r) /\ Unmoved(s, r) /\ Done(r) = Done(s)

Sleeps(s, r) ==
  \E i \in Act(s) :
    /\ Queued(r) = Queued(s) /\ Done(r) = Done(s)
    /\ Act(r) = Act(s) \ {i} /\ Asleep(r) = Asleep(s) \cup {i}

Closes(s, r) ==
  \E i \in Act(s) :
    /\ Queued(s) \subseteq Queued(r) /\ Joins(s, r)
    /\ Act(r) = Act(s) \ {i} /\ Asleep(r) = Asleep(s) /\ Done(r) = Done(s) \cup {i}

Takes(s, r) ==
  \E i \in Queued(s) :
    /\ Oldest(s, i) /\ Queued(r) = Queued(s) \ {i} /\ Done(r) = Done(s)
    /\ \/ Act(r) = Act(s) \cup {i} /\ Asleep(r) = Asleep(s)
       \/ Unmoved(s, r)
       \/ \E p \in Asleep(s) : Asleep(r) = Asleep(s) \ {p} /\ Act(r) = Act(s) \cup {p}

\* The ids of the tasks of each kind when one task takes the place of another.
LEMMA SwapIds ==
  ASSUME NEW s, OneTaskEach(s), NEW t \in s.tasks, NEW u, NEW r, Swapped(s, r, t, u)
  PROVE  /\ t.status # "PAUSED" => Id(t) \in Act(s) /\ Id(t) \notin Asleep(s)
         /\ t.status = "PAUSED" => Id(t) \in Asleep(s) /\ Id(t) \notin Act(s)
         /\ Act(r) = (Act(s) \ {Id(t)}) \cup (IF u.status # "PAUSED" THEN {Id(t)} ELSE {})
         /\ Asleep(r) = (Asleep(s) \ {Id(t)}) \cup (IF u.status = "PAUSED" THEN {Id(t)} ELSE {})
<1>1. /\ r.tasks = (s.tasks \ {t}) \cup {u} /\ Id(u) = Id(t)
      /\ \A w \in s.tasks : Id(w) = Id(t) <=> w = t
  BY DEF Swapped, OneTaskEach
<1>2. \A q, x : x \in Act(q) <=> \E w \in q.tasks : w.status # "PAUSED" /\ Id(w) = x
  BY DEF Act, IdsOf
<1>3. \A q, x : x \in Asleep(q) <=> \E w \in q.tasks : w.status = "PAUSED" /\ Id(w) = x
  BY DEF Asleep, IdsOf
<1>4. ASSUME NEW x
      PROVE  /\ x \in Act(r) <=> \/ x \in Act(s) /\ x # Id(t)
                                 \/ x = Id(t) /\ u.status # "PAUSED"
             /\ x \in Asleep(r) <=> \/ x \in Asleep(s) /\ x # Id(t)
                                    \/ x = Id(t) /\ u.status = "PAUSED"
  BY <1>1, <1>2, <1>3
<1>5. Act(r) = (Act(s) \ {Id(t)}) \cup (IF u.status # "PAUSED" THEN {Id(t)} ELSE {})
  BY <1>4
<1>6. Asleep(r) = (Asleep(s) \ {Id(t)}) \cup (IF u.status = "PAUSED" THEN {Id(t)} ELSE {})
  BY <1>4
<1> QED BY <1>1, <1>2, <1>3, <1>5, <1>6

LEMMA MayPushJoins ==
  ASSUME NEW s, Sound(s), NEW r, MayPush(s, r)
  PROVE  Queued(s) \subseteq Queued(r) /\ Joins(s, r)
<1>1. s.queue \in Seq(Input)
  BY InSession
<1>2. CASE r.queue = s.queue
  BY <1>2 DEF Joins, Queued
<1>3. ASSUME NEW in \in Input, Newest(s, in), r.queue = Append(s.queue, in)
      PROVE  Queued(s) \subseteq Queued(r) /\ Joins(s, r)
  <2>1. Queued(r) = Queued(s) \cup {in.id}
    BY <1>1, <1>3, QueuedAfterPush
  <2>2. PICK W : W = {in.id}
    OBVIOUS
  <2> QED BY <1>3, <2>1, <2>2 DEF Joins
<1> QED BY <1>2, <1>3 DEF MayPush

LEMMA WaysAreMoves ==
  ASSUME NEW s, Ready(s), NEW r, Ways(s, r)
  PROVE  Pushes(s, r) \/ Sleeps(s, r) \/ Closes(s, r) \/ Takes(s, r)
<1>1. Sound(s) /\ OneTaskEach(s) /\ Apart(s) /\ Ordered(s.queue) /\ s.queue \in Seq(Input)
  BY InSession DEF Ready, Orderly
<1>2. CASE Worked(s, r)
  <2>1. PICK t \in s.tasks, u \in r.tasks : Swapped(s, r, t, u) /\ SameTask(t, u) /\ u.status # "PAUSED"
    BY <1>2 DEF Worked
  <2>2. /\ Id(t) \in Act(s) /\ Id(t) \notin Asleep(s)
        /\ Act(r) = (Act(s) \ {Id(t)}) \cup {Id(t)} /\ Asleep(r) = Asleep(s) \ {Id(t)}
    BY <1>1, <2>1, SwapIds DEF SameTask
  <2>3. Unmoved(s, r)
    BY <2>2 DEF Unmoved
  <2> QED BY <1>1, <1>2, <2>1, <2>3, MayPushJoins DEF Worked, Pushes, Swapped
<1>3. CASE Halted(s, r)
  <2>1. PICK t \in s.tasks, u \in r.tasks : Swapped(s, r, t, u) /\ SameTask(t, u) /\ u.status = "PAUSED"
    BY <1>3 DEF Halted
  <2>2. Id(t) \in Act(s) /\ Act(r) = Act(s) \ {Id(t)} /\ Asleep(r) = Asleep(s) \cup {Id(t)}
    BY <1>1, <2>1, SwapIds DEF SameTask
  <2> QED BY <1>3, <2>1, <2>2 DEF Halted, Sleeps, Swapped, Queued
<1>4. CASE Ended(s, r)
  <2>1. PICK t \in s.tasks :
          /\ t.status # "PAUSED" /\ r.tasks = s.tasks \ {t} /\ Done(r) = Done(s) \cup {Id(t)}
    BY <1>4 DEF Ended
  <2>2. Id(t) \in Act(s) /\ Act(r) = Act(s) \ {Id(t)} /\ Asleep(r) = Asleep(s)
    BY <1>1, <2>1 DEF OneTaskEach, Act, Asleep, IdsOf
  <2> QED BY <1>1, <1>4, <2>1, <2>2, MayPushJoins DEF Ended, Closes
<1>5. ASSUME Pops(s, r)
      PROVE  /\ Oldest(s, Head(s.queue).id) /\ Head(s.queue).id \in Queued(s)
             /\ Queued(r) = Queued(s) \ {Head(s.queue).id}
  BY <1>1, <1>5, QueuedAfterPop DEF Pops, Oldest
<1>6. CASE Started(s, r)
  <2>1. PICK u : Id(u) = Head(s.queue).id /\ u.status # "PAUSED" /\ r.tasks = s.tasks \cup {u}
    BY <1>6 DEF Started
  <2>2. Act(r) = Act(s) \cup {Head(s.queue).id} /\ Asleep(r) = Asleep(s)
    BY <2>1 DEF Act, Asleep, IdsOf
  <2> QED BY <1>5, <1>6, <2>2 DEF Started, Takes
<1>7. CASE Skipped(s, r)
  BY <1>5, <1>7 DEF Skipped, Takes, Unmoved, Act, Asleep
<1>8. CASE Woken(s, r)
  <2>1. PICK t \in s.tasks :
          /\ t.status = "PAUSED" /\ t.request.origin # "PAUSED"
          /\ Swapped(s, r, t, Answered(t, Head(s.queue)))
    BY <1>8 DEF Woken
  <2>2. Answered(t, Head(s.queue)).status = t.request.origin
    <3>1. t \in Task
      BY <1>1, <2>1, InSession
    <3> QED BY <3>1 DEF Answered, Task
  <2>3. /\ Id(t) \in Asleep(s) /\ Act(r) = Act(s) \cup {Id(t)}
        /\ Asleep(r) = Asleep(s) \ {Id(t)}
    BY <1>1, <2>1, <2>2, SwapIds
  <2> QED BY <1>5, <1>8, <2>1, <2>3 DEF Woken, Takes, Swapped
<1> QED BY <1>2, <1>3, <1>4, <1>6, <1>7, <1>8 DEF Ways


\* The ledger's variables, named in the session.
LEMMA Entries ==
  /\ Ledger!Seen = Seen(stored)
  /\ IdsOf({t \in stored.tasks : t.status # "PAUSED"}) = Act(stored)
  /\ IdsOf({t \in stored.tasks : t.status = "PAUSED"}) = Asleep(stored)
<1>1. Taken(stored) = Act(stored) \cup Asleep(stored)
  BY DEF Taken, Act, Asleep, IdsOf
<1> QED BY <1>1 DEF Ledger!Seen, Seen, Act, Asleep

LEMMA JoinsArrives ==
  ASSUME StepInv, Stable(stored), NEW r, Joins(stored, r)
  PROVE  Ledger!Arrives(Queued(r) \ Queued(stored))
<1>1. PICK W : /\ Queued(r) \subseteq Queued(stored) \cup W
               /\ W = {} \/ \E in : Newest(stored, in) /\ W = {in.id}
  BY DEF Joins
<1>2. PICK X : X = Queued(r) \ Queued(stored)
  OBVIOUS
<1>3. X = {} \/ \E in : Newest(stored, in) /\ X = {in.id}
  BY <1>1, <1>2
<1>4. \A i, k \in X : i = k
  BY <1>3
<1>5. \A i \in X, j \in Seen(stored) : i > j
  BY <1>3 DEF Newest
<1> QED BY <1>2, <1>4, <1>5, Entries DEF Ledger!Arrives


\* Each kind of write is a step of the ledger.
LEMMA MovesAreSteps ==
  ASSUME LInv, IsOpen(pc), IsOpen(pc'),
         Pushes(stored, stored') \/ Sleeps(stored, stored') \/ Closes(stored, stored')
           \/ Takes(stored, stored')
  PROVE  Ledger!Next
<1>1. StepInv /\ Stable(stored)
  BY StoredReady DEF LInv
<1>2. pc \in {"loop", "saving", "finishing"} /\ pc' \in {"loop", "saving", "finishing"}
  BY DEF IsOpen
<1>3. CASE Pushes(stored, stored')
  <2>1. Ledger!Arrives(Queued(stored') \ Queued(stored))
    BY <1>1, <1>3, JoinsArrives DEF Pushes
  <2>2. Ledger!Push
    BY <1>2, <1>3, <2>1 DEF Ledger!Push, Pushes, Unmoved, Act, Asleep
  <2> QED BY <2>2 DEF Ledger!Next
<1>4. CASE Sleeps(stored, stored')
  <2>1. Ledger!Pause
    BY <1>2, <1>4 DEF Ledger!Pause, Sleeps, Act, Asleep
  <2> QED BY <2>1 DEF Ledger!Next
<1>5. CASE Closes(stored, stored')
  <2>1. Ledger!Arrives(Queued(stored') \ Queued(stored))
    BY <1>1, <1>5, JoinsArrives DEF Closes
  <2>2. Ledger!Close
    BY <1>2, <1>5, <2>1 DEF Ledger!Close, Closes, Act, Asleep
  <2> QED BY <2>2 DEF Ledger!Next
<1>6. CASE Takes(stored, stored')
  <2>1. Ledger!Take \/ Ledger!Wake
    BY <1>2, <1>6
       DEF Ledger!Take, Ledger!Wake, Ledger!IsNext, Takes, Oldest, Unmoved, Act, Asleep
  <2> QED BY <2>1 DEF Ledger!Next
<1> QED BY <1>3, <1>4, <1>5, <1>6


\* What a load leaves, and what it leaves when a first exception pauses a task of it.
Opens(s, r) ==
  /\ Joins(s, r) /\ Done(r) = Done(s)
  /\ Act(r) \subseteq Act(s) /\ Asleep(r) \cap Act(r) = {}
  /\ \/ Asleep(r) \subseteq Asleep(s)
     \/ /\ Queued(r) \subseteq Queued(s)
        /\ \E i \in Act(s) : Asleep(r) \ Asleep(s) = {i}

LEMMA BothKinds ==
  ASSUME NEW s, OneTaskEach(s)
  PROVE  Asleep(s) \cap Act(s) = {}
BY DEF OneTaskEach, Asleep, Act, IdsOf

LEMMA BeganOpens ==
  ASSUME NEW s, Stable(s), Orderly(s), NEW l, NEW r, Began(s, l, r)
  PROVE  Opens(s, r)
<1>1. /\ Loaded(s, l) /\ r.tasks = l.tasks /\ Done(r) = Done(l)
      /\ \/ Queued(r) = Queued(l)
         \/ \E in \in Input : Newest(s, in) /\ Queued(r) = Queued(l) \cup {in.id}
  BY BeganKeeps
<1>2. l.tasks \subseteq s.tasks /\ Done(l) = Done(s) /\ Queued(l) \subseteq Queued(s)
  BY <1>1, LoadedKeeps
<1>3. Act(r) \subseteq Act(s) /\ Asleep(r) \subseteq Asleep(s)
  BY <1>1, <1>2 DEF Act, Asleep, IdsOf
<1>4. Asleep(r) \cap Act(r) = {}
  BY <1>3, BothKinds DEF Orderly
<1>5. Joins(s, r)
  <2>1. CASE Queued(r) = Queued(l)
    BY <1>2, <2>1 DEF Joins
  <2>2. ASSUME NEW in \in Input, Newest(s, in), Queued(r) = Queued(l) \cup {in.id}
        PROVE  Joins(s, r)
    <3>1. PICK W : W = {in.id}
      OBVIOUS
    <3> QED BY <1>2, <2>2, <3>1 DEF Joins
  <2> QED BY <1>1, <2>1, <2>2
<1> QED BY <1>1, <1>2, <1>3, <1>4, <1>5 DEF Opens

LEMMA FailedOpens ==
  ASSUME NEW s, Stable(s), Orderly(s), NEW l, Loaded(s, l), NEW r, Paused(l, r)
  PROVE  Opens(s, r)
<1>1. /\ Sound(l) /\ Orderly(l) /\ l.tasks \subseteq s.tasks /\ Done(l) = Done(s)
      /\ Queued(l) \subseteq Queued(s)
  BY LoadedKeeps
<1>2. PICK t \in l.tasks, u \in r.tasks : Swapped(l, r, t, u) /\ SameTask(t, u) /\ u.status = "PAUSED"
  BY <1>1, PausedWays DEF Halted
<1>3. Done(r) = Done(s) /\ Queued(r) = Queued(l)
  BY <1>1, <1>2, PausedWays DEF Halted, Swapped, Queued
<1>4. OneTaskEach(l) /\ OneTaskEach(s) /\ t.status # "PAUSED"
  BY <1>1, <1>2 DEF Orderly, SameTask
<1>5. Act(r) = Act(l) \ {Id(t)} /\ Asleep(r) = Asleep(l) \cup {Id(t)}
  BY <1>2, <1>4, SwapIds
<1>6. Act(l) \subseteq Act(s) /\ Asleep(l) \subseteq Asleep(s) /\ Id(t) \in Act(s)
  BY <1>1, <1>4 DEF Act, Asleep, IdsOf
<1>7. Asleep(s) \cap Act(s) = {}
  BY <1>4, BothKinds
<1>8. Asleep(r) \cap Act(r) = {} /\ Asleep(r) \ Asleep(s) = {Id(t)}
  BY <1>5, <1>6, <1>7
<1>9. Joins(s, r)
  BY <1>1, <1>3 DEF Joins
<1> QED BY <1>1, <1>3, <1>5, <1>6, <1>8, <1>9 DEF Opens

LEMMA CleanCloses ==
  ASSUME NEW s, Sound(s), NEW r, r = CleanState(s)
  PROVE  /\ Queued(r) = {} /\ Act(r) \subseteq Act(s) /\ Asleep(r) = Asleep(s)
         /\ Done(r) = Done(s)
<1>1. /\ r.queue = <<>> /\ r.history = s.history
      /\ r.tasks = {t \in s.tasks : t.owner = Top(s) => t.status = "PAUSED"}
  BY FieldsOfClean
<1> QED BY <1>1 DEF Queued, Act, Asleep, IdsOf, Done

LEMMA OpensIsStep ==
  ASSUME LInv, ~IsOpen(pc), IsOpen(pc'), Opens(stored, stored')
  PROVE  Ledger!Next
<1>1. StepInv /\ Stable(stored)
  BY StoredReady DEF LInv
<1>2. Ledger!Arrives(Queued(stored') \ Queued(stored))
  BY <1>1, JoinsArrives DEF Opens
<1>3. /\ ~(pc \in {"loop", "saving", "finishing"}) /\ pc' \in {"loop", "saving", "finishing"}
  BY DEF IsOpen
<1>4. \/ Asleep(stored') \subseteq Asleep(stored)
      \/ /\ Queued(stored') \subseteq Queued(stored)
         /\ \E i \in Act(stored) : Asleep(stored') \ Asleep(stored) = {i}
  BY DEF Opens
<1>5. Asleep(stored') \subseteq Asleep(stored) \cup Act(stored)
  BY <1>4
<1>6. Ledger!OpenRun
  BY <1>2, <1>3, <1>4, <1>5 DEF Ledger!OpenRun, Opens, Act, Asleep
<1> QED BY <1>6 DEF Ledger!Next

\* Crashes, rollbacks and restarts included, the stored session is a ledger of
\* inputs: they are taken in the order they came and once, a paused one is woken
\* only by an input that was queued, and what is done stays done.
THEOREM LedgerImplemented == Spec => ImplementsLedger
<1>1. Init => Ledger!Init
  BY DEF Init, NewSession, Ledger!Init, Queued, IdsOf, Done
<1>2. ASSUME LInv, [Next]_vars
      PROVE  [Ledger!Next]_(Ledger!vars)
  <2>1. Written(stored, stored') /\ LInv
    BY <1>2, NextCheckpoint
  <2>2. Orderly(stored) /\ Stable(stored)
    BY <1>2, StoredReady
  <2>3. CASE stored' = stored /\ IsOpen(pc') = IsOpen(pc)
    BY <2>3 DEF Ledger!vars, IsOpen
  <2>4. CASE stored' = stored /\ pc' = "idle"
    <3>1. CASE IsOpen(pc)
      BY <2>4, <3>1 DEF Ledger!Next, Ledger!Abandon, IsOpen
    <3>2. CASE ~IsOpen(pc)
      BY <2>4, <3>2 DEF Ledger!vars, IsOpen
    <3> QED BY <3>1, <3>2
  <2>5. ASSUME pc = "starting", pc' \in {"loop", "finishing"}, NEW l, Loaded(stored, l),
               Began(stored, l, stored') \/ Paused(l, stored')
        PROVE  Ledger!Next
    <3>1. Opens(stored, stored')
      BY <2>2, <2>5, BeganOpens, FailedOpens
    <3>2. ~IsOpen(pc) /\ IsOpen(pc')
      BY <2>5 DEF IsOpen
    <3> QED BY <1>2, <3>1, <3>2, OpensIsStep
  <2>6. CASE pc \in {"loop", "saving"} /\ pc' \in {"loop", "finishing"} /\ Handled(stored, stored')
    <3>1. IsOpen(pc) /\ IsOpen(pc') /\ Ready(stored)
      BY <1>2, <2>6, StoredReady DEF IsOpen
    <3> QED BY <1>2, <2>6, <3>1, HandledWays, WaysAreMoves, MovesAreSteps
  <2>7. CASE pc = "finishing" /\ pc' = "idle" /\ stored' = CleanState(stored)
    <3>1. Sound(stored)
      BY <1>2, <2>7, StoredReady DEF Ready
    <3>2. /\ Queued(stored') = {} /\ Act(stored') \subseteq Act(stored)
          /\ Asleep(stored') = Asleep(stored) /\ Done(stored') = Done(stored)
      BY <2>7, <3>1, CleanCloses
    <3>3. Ledger!CloseRun
      BY <2>7, <3>2 DEF Ledger!CloseRun, Act, Asleep
    <3> QED BY <3>3 DEF Ledger!Next
  <2> QED BY <2>1, <2>3, <2>4, <2>5, <2>6, <2>7 DEF Written
<1> QED BY <1>1, <1>2, CheckpointInvariant, PTL DEF Spec, ImplementsLedger, Ledger!Spec
=============================================================================
