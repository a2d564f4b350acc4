------------------------- MODULE HistoryCompression -------------------------
(***************************************************************************)
(* The history of a session and its compression: a run keeps the session   *)
(* in memory and saves it at every checkpoint; before a model call the      *)
(* context builder shrinks a session that exceeds the hard limit, level by  *)
(* level; after a model call a background worker summarises a snapshot and  *)
(* merges what it wrote into the session of the run and into the latest     *)
(* stored session.  Sources: os/context/compress.py, os/context/provider.py, *)
(* os/service.py, os/runtime.py, os/store/memory.py and                     *)
(* examples/mysql_store/.                                                   *)
(*                                                                          *)
(* An artifact of the history is a number (RuntimeArtifact.id, in order of  *)
(* creation) and whether it is the input that opens a round; the artifacts  *)
(* a task adds after its input are one with it.  A summary is the number    *)
(* of a text, 0 the empty text; told[t] is what text t tells of.  A session *)
(* has the agent on top of its control stack and, as a ghost, what a hard   *)
(* limit threw away on purpose.                                             *)
(***************************************************************************)
EXTENDS Naturals, Sequences, FiniteSets, SequencesExt

CONSTANTS
    Agents, Root,   \* the agents that may own the conversation, the first
    Mysql,          \* TRUE: MySQLStateStore; FALSE: InMemoryStateStore
    EmptyAnswers,   \* may the model answer a summary request with no text
    Crashes,        \* may processes die
    KeepRounds,     \* keep_recent_history_rounds
    SoftTokens, HardTokens, SoftRounds, HardRounds,   \* ContextTokenBudget
    MaxArtifacts, MaxTexts, MaxWorkers, MaxVersion, MaxWork, MaxRuns
                    \* bounds of the checked instances, 0 for none

\* A limit of 0 would put every context over it; tokens have a hard limit
\* above the soft one (ContextTokenBudget).
ASSUME BudgetAssumption ==
    /\ Root \in Agents
    /\ {KeepRounds, SoftTokens, HardTokens, SoftRounds, HardRounds} \subseteq Nat
    /\ 0 < SoftTokens /\ SoftTokens <= HardTokens
    /\ {Mysql, EmptyAnswers, Crashes} \subseteq BOOLEAN
    /\ {MaxArtifacts, MaxTexts, MaxWorkers, MaxVersion, MaxWork, MaxRuns}
           \subseteq Nat

VARIABLES
    rows,       \* stored sessions: one, or in MySQL one per version
    lease,      \* agent -> running compression task: its owner, 0 for none
    live,       \* the session object of the run
    safe,       \* Runtime.last_session_state
    object,     \* identity of the live session object: which run's, and
                \* whether it is the copy the run went back to
    pc,         \* where the run is
    level,      \* compression levels the context build has tried
    tokens,     \* total_tokens of the context built last
    snap,       \* snapshot a synchronous summary is written from
    work,       \* tokens of the current task's own artifacts
    workers,    \* background compressions, in order of scheduling
    told,       \* text -> the artifacts it tells of
    made,       \* number of artifacts created
    acked       \* ghost: the rounds a checkpoint of a run has stored

vars == <<rows, lease, live, safe, object, pc, level, tokens, snap, work,
          workers, told, made, acked>>

storeVars   == <<rows, lease>>
sessionVars == <<live, safe, object>>
buildVars   == <<level, tokens, snap>>
taskVars    == <<work, made>>

(***************************************************************************)
(* Sessions                                                                 *)
(***************************************************************************)
Artifact == [id : Nat \ {0}, start : BOOLEAN]
Session  == [hist : Seq(Artifact), mid : Nat, gone : SUBSET Nat,
             top : Agents, ver : Nat]

FreshSession == [hist |-> <<>>, mid |-> 0, gone |-> {}, top |-> Root, ver |-> 0]

Ids(h)     == {h[i].id : i \in DOMAIN h}
Opening(h) == {h[i].id : i \in {j \in DOMAIN h : h[j].start}}
Tells(t)   == IF t = 0 THEN {} ELSE told[t]

RoundStarts(h) == {i \in DOMAIN h : h[i].start}
Rounds(h)      == Cardinality(RoundStarts(h))

\* Tokens of a context: its history, its summary and the task's artifacts.
Tokens(s, w) == Len(s.hist) + (IF s.mid = 0 THEN 0 ELSE 1) + w

\* How much of a history a summary absorbs: all but the latest KeepRounds
\* rounds, or all of it when it has no more rounds than that.
Cut(h) ==
    IF Rounds(h) <= KeepRounds THEN Len(h)
    ELSE Cardinality({i \in DOMAIN h :
             KeepRounds <= Cardinality({j \in RoundStarts(h) : i < j})})

\* The summary is written from whole rounds: what stands before the first
\* input is not shown to the model.
Absorbed(h, n) == {h[i].id : i \in {j \in 1..n : \E k \in 1..j : h[k].start}}

\* Seeded fault: the summary of the session is not compared.
CanMergeOverSummary(s, r) == IsPrefix(r.hist, s.hist)
\* Seeded fault: what the history gained since the snapshot is overwritten.
MergeOverTail(s, r) ==
    [s EXCEPT !.hist = SubSeq(r.hist, r.cut + 1, Len(r.hist)), !.mid = r.text]

\* Merging a NORMAL result (a snapshot's history and summary, the number of
\* artifacts absorbed, the new text) into a session that has moved on.
CanMerge(s, r) == IsPrefix(r.hist, s.hist) /\ s.mid = r.mid
Merge(s, r) ==
    [s EXCEPT !.hist = SubSeq(r.hist, r.cut + 1, Len(r.hist))
                         \o SubSeq(s.hist, Len(r.hist) + 1, Len(s.hist)),
              !.mid  = r.text]
MergeInto(s, r) == IF CanMerge(s, r) THEN Merge(s, r) ELSE s

(***************************************************************************)
(* The state store                                                          *)
(***************************************************************************)
Versions == {r.ver : r \in rows}
Latest   == IF rows = {} THEN FreshSession
            ELSE CHOOSE r \in rows : \A v \in Versions : v <= r.ver

\* Saving s: MySQL moves the row of the version held by the caller to the
\* next one or, when that row is no longer there, adds a row after the
\* latest.  The key on the version refuses a row that is already there; the
\* retries run into the same row, and the save raises.
NextVersion(s) ==
    IF ~ Mysql THEN s.ver
    ELSE IF s.ver \in Versions THEN s.ver + 1 ELSE Latest.ver + 1
Stored(s) == [s EXCEPT !.ver = NextVersion(s)]

\* Seeded fault: no key on the version.
CanSaveOver(s) == TRUE

CanSave(s)   == Mysql => NextVersion(s) \notin Versions
RowsAfter(s) == IF Mysql THEN {r \in rows : r.ver # s.ver} \cup {Stored(s)}
                ELSE {Stored(s)}
Save(s) == CanSave(s) /\ rows' = RowsAfter(s)

(***************************************************************************)
(* Background workers                                                       *)
(***************************************************************************)
NoTask == [owner |-> 0, expired |-> FALSE]

Result == [hist : Seq(Artifact), mid : Nat, cut : Nat, text : Nat]

Worker == [pc : {"compact", "merge", "load", "save", "finish", "done", "dead"},
           agent : Agents, object : [run : Nat, copy : 0..1], result : Result, loaded : Session]

Active(w) == workers[w].pc \notin {"done", "dead"}

Snapshot(s) == [hist |-> s.hist, mid |-> s.mid, cut |-> Cut(s.hist), text |-> 0]

NoSnapshot == Snapshot(FreshSession)

\* A running task keeps others out; MySQL lets an expired one be taken over.
\* The memory store refuses a session it has never stored.
CanCreateTask(a) ==
    \/ lease[a].owner = 0 /\ (Mysql \/ rows # {})
    \/ Mysql /\ lease[a].expired

OverSoft == tokens >= SoftTokens \/ (SoftRounds > 0 /\ Rounds(live.hist) >= SoftRounds)
OverHard == tokens >= HardTokens \/ (HardRounds > 0 /\ Rounds(live.hist) >= HardRounds)

(***************************************************************************)
(* Initial state                                                            *)
(***************************************************************************)
Init ==
    /\ rows = {}
    /\ lease = [a \in Agents |-> NoTask]
    /\ live = FreshSession /\ safe = FreshSession /\ object = [run |-> 0, copy |-> 0]
    /\ pc = "off" /\ level = 0 /\ tokens = 0 /\ snap = NoSnapshot
    /\ work = 0
    /\ workers = <<>> /\ told = <<>> /\ made = 0 /\ acked = {}

\* The locals of a build end with the model call it was made for.
EndBuild == level' = 0 /\ tokens' = 0 /\ snap' = NoSnapshot

\* The Runtime and its session object end with the run.
EndRun == /\ pc' = "off"
          /\ live' = FreshSession /\ safe' = FreshSession /\ work' = 0

(***************************************************************************)
(* The run: load, tasks, checkpoints, failure, finish                       *)
(***************************************************************************)
StartRun ==
    /\ pc = "off"
    /\ MaxRuns > 0 => object.run < MaxRuns
    /\ pc' = "saving"
    /\ live' = Latest /\ safe' = Latest
    /\ object' = [run |-> object.run + 1, copy |-> 0]
    /\ work' = 0
    /\ UNCHANGED <<storeVars, buildVars, workers, told, made, acked>>

\* A step of the task that calls no model, a tool's for one.
TakeStep(more) ==
    /\ pc = "ready"
    /\ MaxWork > 0 => work + more <= MaxWork
    /\ pc' = "saving"
    /\ work' = work + more
    /\ UNCHANGED <<storeVars, sessionVars, buildVars, made, workers, told, acked>>

\* Closing a task appends its artifacts and, when it hands the conversation
\* over, one for the change of control; the checkpoint follows.
CloseTask(next) ==
    LET artifact(i, isStart) == [id |-> made + i, start |-> isStart]
        closed == IF next = live.top THEN <<artifact(1, TRUE)>>
                  ELSE <<artifact(1, TRUE), artifact(2, FALSE)>>
    IN  /\ pc = "ready"
        /\ MaxArtifacts > 0 => made + Len(closed) <= MaxArtifacts
        /\ pc' = "saving"
        /\ live' = [live EXCEPT !.hist = @ \o closed, !.top = next]
        /\ made' = made + Len(closed)
        /\ work' = 0
        /\ UNCHANGED <<storeVars, safe, object, buildVars, workers, told, acked>>

\* The checkpoint every step of the run ends with.
Checkpoint ==
    /\ pc \in {"saving", "paused"}
    /\ MaxVersion > 0 => live.ver < MaxVersion
    /\ Save(live)
    /\ pc' = IF pc = "paused" THEN "ended" ELSE "ready"
    /\ live' = Stored(live) /\ safe' = Stored(live)
    /\ acked' = acked \cup Opening(live.hist)
    /\ UNCHANGED <<lease, object, buildVars, taskVars, workers, told>>

\* A checkpoint that raises; while pausing the task nothing catches it.
CheckpointRaises ==
    /\ pc \in {"saving", "paused"}
    /\ ~ CanSave(live)
    /\ IF pc = "paused" THEN EndRun
       ELSE pc' = "failed" /\ UNCHANGED <<live, safe, work>>
    /\ UNCHANGED <<storeVars, object, buildVars, made, workers, told, acked>>

\* An exception of the main loop: the run returns to a copy of its last
\* checkpoint and pauses the running task, whose artifacts go to the history.
PauseTaskAfterException ==
    /\ pc \in {"call", "failed"}
    /\ MaxArtifacts > 0 => made < MaxArtifacts
    /\ pc' = "paused"
    /\ live' = [safe EXCEPT !.hist = Append(@, [id |-> made + 1, start |-> TRUE])]
    /\ made' = made + 1
    /\ object' = [object EXCEPT !.copy = 1]
    /\ work' = 0
    /\ EndBuild
    /\ UNCHANGED <<storeVars, safe, workers, told, acked>>

\* The same without a running task in the checkpoint: the run raises.
RunRaises ==
    /\ pc \in {"call", "failed"}
    /\ EndRun /\ EndBuild
    /\ UNCHANGED <<storeVars, object, made, workers, told, acked>>

RunEnds ==
    /\ pc = "ready"
    /\ pc' = "ended"
    /\ UNCHANGED <<storeVars, sessionVars, buildVars, taskVars, workers, told, acked>>

\* checkpoint_for_run_finish; a save that raises ends the run all the same.
Finish ==
    /\ pc = "ended"
    /\ MaxVersion > 0 => live.ver < MaxVersion
    /\ \/ Save(live) /\ acked' = acked \cup Opening(live.hist)
       \/ ~ CanSave(live) /\ UNCHANGED <<rows, acked>>
    /\ EndRun
    /\ UNCHANGED <<lease, object, buildVars, made, workers, told>>

(***************************************************************************)
(* The context build and the levels of the hard limit                       *)
(***************************************************************************)
BeginBuild ==
    /\ pc = "ready"
    /\ pc' = "build" /\ level' = 0
    /\ tokens' = Tokens(live, work)
    /\ UNCHANGED <<storeVars, sessionVars, snap, taskVars, workers, told, acked>>

ContextFits ==
    /\ pc = "build" /\ ~ OverHard
    /\ pc' = "call" /\ level' = 0
    /\ UNCHANGED <<storeVars, sessionVars, tokens, snap, taskVars, workers, told, acked>>

\* No level is left: OSRuntimeError.
ContextTooLarge ==
    /\ pc = "build" /\ OverHard /\ level = 3
    /\ pc' = "failed"
    /\ EndBuild
    /\ UNCHANGED <<storeVars, sessionVars, taskVars, workers, told, acked>>

\* The STARTED event of a level is published before it takes its snapshot.
BeginLevel ==
    /\ pc = "build" /\ OverHard /\ level < 3
    /\ pc' = "level"
    /\ UNCHANGED <<storeVars, sessionVars, buildVars, taskVars, workers, told, acked>>

\* Seeded fault: a level that changed nothing is tried again.
EndLevelRetrying(success) ==
    /\ pc' = "build" /\ level' = (IF success THEN level + 1 ELSE level)
    /\ snap' = NoSnapshot
    /\ tokens' = IF success THEN Tokens(live', work) ELSE tokens

\* The end of a level: the context is built again only if it changed something.
EndLevel(success) ==
    /\ pc' = "build" /\ level' = level + 1 /\ snap' = NoSnapshot
    /\ tokens' = IF success THEN Tokens(live', work) ELSE tokens

\* NORMAL: a summary is asked for, or there is nothing to summarise.
BeginSummary ==
    /\ pc = "level" /\ level = 0 /\ live.hist # <<>>
    /\ pc' = "summary"
    /\ snap' = Snapshot(live)
    /\ UNCHANGED <<storeVars, sessionVars, level, tokens, taskVars, workers, told, acked>>

SummaryFails ==
    /\ \/ pc = "level" /\ level = 0 /\ live.hist = <<>>
       \/ pc = "summary"
    /\ EndLevel(FALSE)
    /\ UNCHANGED <<storeVars, sessionVars, taskVars, workers, told, acked>>

\* The model's text for snapshot r, or no text.
Writes(r, text) ==
    /\ MaxTexts > 0 => Len(told) < MaxTexts
    /\ \/ /\ text = Len(told) + 1
          /\ told' = Append(told, Tells(r.mid) \cup Absorbed(r.hist, r.cut))
       \/ EmptyAnswers /\ text = 0 /\ UNCHANGED told

EndSummary(text) ==
    LET result == [snap EXCEPT !.text = text]
    IN  /\ pc = "summary"
        /\ Writes(snap, text)
        /\ live' = MergeInto(live, result)
        /\ EndLevel(CanMerge(live, result))
        /\ UNCHANGED <<storeVars, safe, object, taskVars, workers, acked>>

\* DISCARD_MID_TERM_MEMORY throws the summary away.
Discard ==
    /\ pc = "level" /\ level = 1
    /\ live' = [live EXCEPT !.gone = @ \cup Tells(live.mid), !.mid = 0]
    /\ EndLevel(live.mid # 0)
    /\ UNCHANGED <<storeVars, safe, object, taskVars, workers, told, acked>>

\* DROP_HISTORY throws the history away, and the summary with it.
Drop ==
    /\ pc = "level" /\ level = 2
    /\ live' = IF live.hist = <<>> THEN live
               ELSE [live EXCEPT !.gone = @ \cup Tells(live.mid) \cup Ids(live.hist),
                                 !.mid = 0, !.hist = <<>>]
    /\ EndLevel(live.hist # <<>>)
    /\ UNCHANGED <<storeVars, safe, object, taskVars, workers, told, acked>>

(***************************************************************************)
(* After the model's answer: scheduling a background compression            *)
(***************************************************************************)
Schedules == /\ OverSoft /\ CanCreateTask(live.top)
             /\ MaxWorkers > 0 => Len(workers) < MaxWorkers

Answered ==
    /\ pc = "call" /\ ~ Schedules
    /\ pc' = "saving"
    /\ EndBuild
    /\ UNCHANGED <<storeVars, sessionVars, taskVars, workers, told, acked>>

NewWorker ==
    [pc |-> "compact", agent |-> live.top, object |-> object,
     result |-> Snapshot(live), loaded |-> FreshSession]

\* The task record, the snapshot of the session and the worker; the record's
\* lease_owner is unique to the attempt.
AnsweredAndScheduled ==
    /\ pc = "call" /\ Schedules
    /\ pc' = "saving"
    /\ workers' = Append(workers, NewWorker)
    /\ lease' = [lease EXCEPT ![live.top] = [owner |-> Len(workers) + 1, expired |-> FALSE]]
    /\ EndBuild
    /\ UNCHANGED <<rows, sessionVars, taskVars, told, acked>>

(***************************************************************************)
(* A background compression                                                 *)
(***************************************************************************)
GoesOn(w, next) == workers' = [workers EXCEPT ![w] = next]

Dead(worker) ==
    [worker EXCEPT !.pc = "dead", !.result = NoSnapshot, !.loaded = FreshSession]

\* The summary: a text, or an exception (the model, or nothing to summarise).
Compact(w, text) ==
    LET r == workers[w].result
    IN  /\ workers[w].pc = "compact"
        /\ r.hist # <<>>
        /\ Writes(r, text)
        /\ GoesOn(w, [workers[w] EXCEPT !.pc = "merge", !.result = [r EXCEPT !.text = text]])
        /\ UNCHANGED <<storeVars, sessionVars, pc, buildVars, taskVars, acked>>

\* Seeded fault: the exception of a compression leaves the coroutine.
CompactRaises(w) ==
    /\ workers[w].pc = "compact"
    /\ GoesOn(w, [workers[w] EXCEPT !.pc = "dead"])
    /\ UNCHANGED <<storeVars, sessionVars, pc, buildVars, taskVars, told, acked>>

\* A failed compression is only logged; the task is finished all the same.
CompactFails(w) ==
    /\ workers[w].pc = "compact"
    /\ GoesOn(w, [workers[w] EXCEPT !.pc = "finish"])
    /\ UNCHANGED <<storeVars, sessionVars, pc, buildVars, taskVars, told, acked>>

\* The callback merges into the session object the worker was started from,
\* which is no longer the run's after a rollback or a new run.
MergeIntoRun(w) ==
    live' = IF workers[w].object = object /\ pc # "off"
            THEN MergeInto(live, workers[w].result) ELSE live

\* The memory store merges into the stored session without an await between.
MergeInMemory(w) ==
    /\ ~ Mysql
    /\ workers[w].pc = "merge"
    /\ MergeIntoRun(w)
    /\ rows' = {MergeInto(r, workers[w].result) : r \in rows}
    /\ GoesOn(w, [workers[w] EXCEPT !.pc = "finish"])
    /\ UNCHANGED <<lease, safe, object, pc, buildVars, taskVars, told, acked>>

\* MySQL: merge into the run's session, then load the latest one ...
MergeThenLoad(w) ==
    /\ Mysql
    /\ workers[w].pc = "merge"
    /\ MergeIntoRun(w)
    /\ GoesOn(w, [workers[w] EXCEPT !.pc = "load"])
    /\ UNCHANGED <<storeVars, safe, object, pc, buildVars, taskVars, told, acked>>

\* ... merge into what was loaded ...
LoadLatest(w) ==
    /\ workers[w].pc = "load"
    /\ IF CanMerge(Latest, workers[w].result)
       THEN GoesOn(w, [workers[w] EXCEPT !.pc = "save",
                                         !.loaded = Merge(Latest, workers[w].result)])
       ELSE GoesOn(w, [workers[w] EXCEPT !.pc = "finish"])
    /\ UNCHANGED <<storeVars, sessionVars, pc, buildVars, taskVars, told, acked>>

\* ... and save it.
SaveMerged(w) ==
    /\ workers[w].pc = "save"
    /\ MaxVersion > 0 => workers[w].loaded.ver < MaxVersion
    /\ Save(workers[w].loaded)
    /\ GoesOn(w, [workers[w] EXCEPT !.pc = "finish", !.loaded = FreshSession])
    /\ UNCHANGED <<lease, sessionVars, pc, buildVars, taskVars, told, acked>>

\* A callback that raises never comes to finish its task.
SaveRaises(w) ==
    /\ workers[w].pc = "save"
    /\ ~ CanSave(workers[w].loaded)
    /\ GoesOn(w, Dead(workers[w]))
    /\ UNCHANGED <<storeVars, sessionVars, pc, buildVars, taskVars, told, acked>>

\* Seeded fault: finishing does not look at the owner.
FinishAnyTask(w) ==
    /\ workers[w].pc = "finish"
    /\ lease' = [lease EXCEPT ![workers[w].agent] = NoTask]
    /\ GoesOn(w, [workers[w] EXCEPT !.pc = "done", !.result = NoSnapshot])
    /\ UNCHANGED <<rows, sessionVars, pc, buildVars, taskVars, told, acked>>

\* Finishing matches the owner: a task taken over is left to its new owner.
FinishTask(w) ==
    LET a == workers[w].agent
    IN  /\ workers[w].pc = "finish"
        /\ lease' = IF lease[a].owner = w THEN [lease EXCEPT ![a] = NoTask] ELSE lease
        /\ GoesOn(w, [workers[w] EXCEPT !.pc = "done", !.result = NoSnapshot])
        /\ UNCHANGED <<rows, sessionVars, pc, buildVars, taskVars, told, acked>>

\* Ten minutes without an end: MySQL's lease_expires_at has passed.
Expire(a) ==
    /\ Mysql
    /\ lease[a].owner # 0 /\ ~ lease[a].expired
    /\ lease' = [lease EXCEPT ![a].expired = TRUE]
    /\ UNCHANGED <<rows, sessionVars, pc, buildVars, taskVars, workers, told, acked>>

\* Processes die, with the runs and the workers they host.
Crash ==
    /\ Crashes
    /\ \E dead \in SUBSET (1..object.run) :
           /\ dead # {}
           /\ workers' = [w \in DOMAIN workers |->
                  IF Active(w) /\ workers[w].object.run \in dead
                  THEN Dead(workers[w]) ELSE workers[w]]
           /\ IF object.run \in dead THEN EndRun /\ EndBuild
              ELSE UNCHANGED <<pc, live, safe, work, buildVars>>
    /\ UNCHANGED <<storeVars, object, made, told, acked>>

(***************************************************************************)
(* Specification                                                            *)
(***************************************************************************)
BuildStep ==
    \/ ContextFits \/ ContextTooLarge \/ BeginLevel
    \/ BeginSummary \/ SummaryFails
    \/ \E text \in 0..Len(told) + 1 : EndSummary(text)
    \/ Discard \/ Drop

RunStep ==
    \/ \E next \in Agents : CloseTask(next)
    \/ Checkpoint \/ CheckpointRaises
    \/ PauseTaskAfterException \/ RunRaises \/ RunEnds \/ Finish
    \/ \E more \in 0..1 : TakeStep(more)
    \/ BeginBuild \/ BuildStep \/ Answered \/ AnsweredAndScheduled

WorkerStep(w) ==
    \/ \E text \in 0..Len(told) + 1 : Compact(w, text)
    \/ CompactFails(w)
    \/ MergeInMemory(w) \/ MergeThenLoad(w) \/ LoadLatest(w)
    \/ SaveMerged(w) \/ SaveRaises(w) \/ FinishTask(w)

Next ==
    \/ StartRun \/ RunStep
    \/ \E w \in DOMAIN workers : WorkerStep(w)
    \/ \E a \in Agents : Expire(a)
    \/ Crash

Spec == Init /\ [][Next]_vars

\* Time passes, the model answers or fails, and a coroutine that is not
\* waiting goes on: every step of a worker and of a context build is taken.
Fairness ==
    /\ \A w \in 1..MaxWorkers : WF_vars(w \in DOMAIN workers /\ WorkerStep(w))
    /\ \A a \in Agents : WF_vars(Expire(a))
    /\ WF_vars(BuildStep)

FairSpec == Spec /\ Fairness

(***************************************************************************)
(* Properties                                                               *)
(***************************************************************************)
TypeOK ==
    /\ rows \subseteq Session /\ \A r, s \in rows : r.ver = s.ver => r = s
    /\ lease \in [Agents -> [owner : Nat, expired : BOOLEAN]]
    /\ live \in Session /\ safe \in Session
    /\ object \in [run : Nat, copy : 0..1]
    /\ pc \in {"off", "saving", "ready", "build", "level", "summary", "call",
               "failed", "paused", "ended"}
    /\ level \in 0..3 /\ tokens \in Nat /\ snap \in Result
    /\ work \in Nat
    /\ workers \in Seq(Worker)
    /\ told \in Seq(SUBSET Nat)
    /\ made \in Nat /\ acked \subseteq Nat

\* A session tells its story once and in order: the history is in order of
\* creation, the summary and what was thrown away are of before the history,
\* and nothing thrown away comes back in a summary.  A worker merges a
\* snapshot into a session that has moved on, been compressed or been rolled
\* back since (merge_compacted_result).
Sessions == rows \cup {live, safe}
InOrder(s) ==
    /\ \A i, j \in DOMAIN s.hist : i < j => s.hist[i].id < s.hist[j].id
    /\ \A n \in Tells(s.mid) \cup s.gone, i \in DOMAIN s.hist : n < s.hist[i].id
    /\ Tells(s.mid) \cap s.gone = {}
ToldOnce == \A s \in Sessions : InOrder(s)

\* Nothing is lost: every round that a checkpoint has stored is in the
\* latest stored session's history or summary, unless a hard limit threw it
\* away, whatever is merged, rolled back, loaded or saved in between.
NothingLost ==
    acked \subseteq Ids(Latest.hist) \cup Tells(Latest.mid) \cup Latest.gone

\* A running task is the property of the worker that created it or took it
\* over: it is given up by that worker when it finishes, or taken over after
\* its lease has expired (finish_context_compression_task, try_create...).
LeaseKept ==
    [][\A a \in Agents :
           LET w == lease[a].owner
           IN  w # 0 /\ lease'[a].owner # w
               => \/ lease[a].expired /\ lease'[a].owner # 0
                  \/ workers[w].pc = "finish" /\ workers'[w].pc = "done"]_vars

\* A compression task comes to an end: whatever the model or the merge
\* answer, its record is released, or in MySQL has a lease that expires.
LeaseEnds ==
    \A a \in Agents : lease[a].owner # 0 ~> lease[a].owner = 0 \/ lease[a].expired

\* A context build ends: in a model call or in the error of the hard limit.
BuildEnds == pc = "build" ~> pc \in {"call", "failed", "off"}
=============================================================================
