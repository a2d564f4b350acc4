--------------------------- MODULE ServerRequests ---------------------------
(***************************************************************************)
(* The example server: requests on one session, each in a task of its own,  *)
(* over what they share.  A completion runs the agents on a message, or      *)
(* follows the run that already works on it from the records in Redis, or    *)
(* tells the page to load the history; loading a page follows the run the    *)
(* session stored, or runs again what it left.  A message is an input, which *)
(* makes a task, or the response to a request, which wakes the task that     *)
(* paused for it.  A run checkpoints the session, puts its records into its  *)
(* stream, saves the history, closes the session and says that it is         *)
(* complete, in this order.                                                  *)
(* Sources: examples/server/service.py, runtime_event_handler.py,            *)
(* stream_store.py, examples/mysql_store, os/service.py, os/runtime.py,      *)
(* os/models.py and kernel/runtime.py.                                       *)
(*                                                                          *)
(* A step ends where the code awaits a call that others can see.  Writing a  *)
(* record under the emit lock and telling the client of it is one step: the  *)
(* record is in Redis first, and a client that went away is one that has     *)
(* heard only a part of what it is told here.  Agents are not told apart: a  *)
(* response wakes a task that goes on in this run, as one of the agent in    *)
(* control does.                                                             *)
(***************************************************************************)
EXTENDS Naturals, Sequences, FiniteSets, SequencesExt

CONSTANTS
    Requests,        \* the requests in the order they arrive, 1..n
    Messages,        \* client_event_ids
    Responses,       \* those of responses to interruption requests
    RequestOf,       \* the number of the interruption request each answers
    Page,            \* what a page that is loaded sends instead of one
    Wake,            \* the fresh id of an input that a task leaves
    PausedLimit,     \* paused tasks that a run keeps, 5 of each agent
    MaxServed,       \* requests that are served at a time
    MaxEvents        \* pauses, inputs that tasks leave, heartbeats, streams and
                     \* indexes that expire, calls that fail, and crashes

ASSUME RequestAssumption ==
    /\ IsFiniteSet(Requests) /\ Requests = 1..Cardinality(Requests) /\ Requests # {}
    /\ Page \notin Messages /\ Wake \notin Messages
    /\ Responses \subseteq Messages /\ RequestOf \in [Responses -> Nat \ {0}]
    /\ {PausedLimit, MaxServed, MaxEvents} \subseteq Nat

VARIABLES
    rows,      \* session_state: the stored sessions, one per version
    history,   \* message_projection: a row for each task of a saved run
    written,   \* message_projection_run: runs that saved theirs
    active,    \* hash of active runs: [run, msg], which has no order
    stream,    \* records of every run that Redis still has
    req,       \* the requests
    used       \* run ids, interruption requests and events so far

vars == <<rows, history, written, active, stream, req, used>>

mysqlVars == <<rows, history, written>>
redisVars == <<active, stream>>

-----------------------------------------------------------------------------
(* The stored session.  An item of the queue is the input `msg`, or with     *)
(* req # 0 the response to that request.  A task keeps the id of its first   *)
(* input as `row` and that of the last thing it was given as `by`; `paused`  *)
(* are the tasks that wait, each for the response to its request, and `told` *)
(* the finished ones whose events would be told again.                       *)

Session  == [run |-> 0, queue |-> <<>>, task |-> {}, paused |-> {}, told |-> <<>>]
Versions == {r.ver : r \in rows}
Newest   == CHOOSE r \in rows \cup {[ver |-> 0, st |-> Session]} :
                \A v \in Versions : v <= r.ver

\* save_session_state: the row of the version that is held moves up, and fails
\* on the key when the next version is there; else a row is added as newest.
CanSave(q)   == ~({req[q].ver, req[q].ver + 1} \subseteq Versions)
Version(q)   == IF req[q].ver \in Versions THEN req[q].ver + 1 ELSE Newest.ver + 1
Saved(q, st) == {r \in rows : r.ver # req[q].ver} \cup {[ver |-> Version(q), st |-> st]}

\* clean_state: what is paused stays.
Cleaned(st) == [st EXCEPT !.run = 0, !.queue = <<>>, !.task = {}, !.told = <<>>]

\* load_session_state drops paused tasks above the limit, the oldest of each agent.
Kept(st) == {[st EXCEPT !.paused = some] :
                some \in {some \in SUBSET st.paused :
                            some = st.paused \/ Cardinality(some) >= PausedLimit}}

Item(m) == [msg |-> m, req |-> IF m \in Responses THEN RequestOf[m] ELSE 0]

\* The head of the queue is taken: an input makes a task, a response wakes the
\* paused task that waits for it, and there may be none.
Taken(st) ==
    LET item  == Head(st.queue)
        woken == {t \in st.paused : t.req = item.req}
    IN  [st EXCEPT !.queue = Tail(@), !.paused = @ \ woken,
                   !.task = IF item.req = 0 THEN {[row |-> item.msg, by |-> item.msg]}
                            ELSE {[row |-> t.row, by |-> item.msg] : t \in woken}]

Pausing(st, t) ==
    [st EXCEPT !.task = {}, !.paused = @ \cup {[row |-> t.row, req |-> used.pauses + 1]}]

-----------------------------------------------------------------------------
(* Streams and requests.                                                    *)

Runs == Requests

\* The records of a run are numbered; after a crash a stream has no writer.
Record(id, kind) == [id |-> id, kind |-> kind]
\* A stream is sorted by the numbers of its records: a read begins at the first
\* that is not below the one asked for.
From(run, id) ==
    LET later == {k \in DOMAIN stream[run] : stream[run][k].id >= id}
    IN  IF later = {} THEN <<>>
        ELSE SubSeq(stream[run], CHOOSE k \in later : \A j \in later : k <= j,
                    Len(stream[run]))
\* Seeded fault: the record the client has heard is read again.
AfterAndAt(run, last) == From(run, last)
After(run, last) == From(run, last + 1)

NewRequest ==
    [pc |-> "none", msg |-> Page, last |-> 0, ver |-> 0, st |-> Session, run |-> 0,
     id |-> 0, seen |-> <<>>, late |-> FALSE, heard |-> <<>>, result |-> "none"]

At(q, pc)   == req[q].pc = pc
Goes(q, pc) == [req[q] EXCEPT !.pc = pc]

\* What a request held is gone when it ends.
Ends(q, result) == [req[q] EXCEPT !.pc = "ended", !.result = result,
                                  !.ver = 0, !.st = Session, !.seen = <<>>]
Become(q, r) == req' = [req EXCEPT ![q] = r]

\* The steps of a runtime, from the start of its handler until send_complete.
Working ==
    {"replay", "push", "work", "start", "answer", "rollback", "save", "close", "tell"}
\* Seeded fault: the heartbeats go on until the handler is closed.
BeatingOn == Working \cup {"drop"}
Beating   == Working

\* Seeded fault: a reader waits for a run whatever became of it.
Wrote(run)  == \E q \in Requests : req[q].run = run /\ req[q].id > 0
Writes(run) == \E q \in Requests : req[q].run = run /\ req[q].pc \in Working

\* _emit: the next number, the record into Redis, then to the client.
Emit(q, kinds, next) ==
    LET ids == [k \in DOMAIN kinds |-> req[q].id + k]
    IN /\ stream' = [stream EXCEPT ![req[q].run] =
                        @ \o [k \in DOMAIN kinds |-> Record(ids[k], kinds[k])]]
       /\ Become(q, [next EXCEPT !.id = @ + Len(kinds), !.heard = @ \o ids])

\* A task that begins, goes on or is told again: its buffer from its first input,
\* and before it the end of the task before (ProcessingTask.publish, listen).
TaskKinds(q) == IF req[q].seen = <<>> THEN <<"chunk">> ELSE <<"complete", "chunk">>
Sees(q, t)   == [req[q] EXCEPT !.seen = Append(@, t)]

-----------------------------------------------------------------------------
(* A request until it runs, follows or ends.                                 *)

Heard(q) == req[q].last + Len(req[q].heard)

Served == {q \in Requests : ~At(q, "none") /\ ~At(q, "ended")}

\* A client asks, or asks again, with the number of the last record it heard.
Arrive(q) ==
    \E m \in Messages \cup {Page} :
      \E last \in {0} \cup {Heard(p) : p \in {p \in Requests : req[p].msg = m}} :
        /\ At(q, "none") /\ \A p \in 1..(q - 1) : ~At(p, "none")
        /\ m = Page => last = 0
        /\ Cardinality(Served) < MaxServed
        /\ Become(q, [Goes(q, "load") EXCEPT !.msg = m, !.last = last])
        /\ UNCHANGED <<mysqlVars, redisVars, used>>

Load(q) ==
    /\ At(q, "load")
    /\ Become(q, [Goes(q, IF req[q].msg = Page THEN "check" ELSE "find") EXCEPT
                    !.ver = Newest.ver, !.st = Newest.st,
                    !.run = IF req[q].msg = Page THEN Newest.st.run ELSE 0])
    /\ UNCHANGED <<mysqlVars, redisVars, used>>

Find(q) ==
    LET known == {a \in active : a.msg = req[q].msg}
    IN /\ At(q, "find")
       /\ \/ known = {} /\ Become(q, Goes(q, "lookup"))
          \/ \E a \in known : Become(q, [Goes(q, "check") EXCEPT !.run = a.run])
       /\ UNCHANGED <<mysqlVars, redisVars, used>>

\* has_stream and the first read_range of _put_cached_records.
Check(q) ==
    /\ At(q, "check")
    /\ Become(q, IF req[q].run # 0 /\ After(req[q].run, req[q].last) # <<>>
                 THEN Goes(q, "follow")
                 ELSE [Goes(q, IF req[q].msg = Page THEN "begin" ELSE "lookup")
                         EXCEPT !.run = 0])
    /\ UNCHANGED <<mysqlVars, redisVars, used>>

\* The row of a task in the history has the id of its first input, so that of a
\* response is never there.
Known(m) == \E k \in DOMAIN history : history[k].row = m

\* A message that is in the history is not run again; nor is one of which the
\* client heard a part: the page is told to load.
Lookup(q) ==
    /\ At(q, "lookup")
    /\ Become(q, IF Known(req[q].msg) \/ req[q].last # 0
                 THEN Ends(q, "reload") ELSE Goes(q, "begin"))
    /\ UNCHANGED <<mysqlVars, redisVars, used>>

\* init_session and RuntimeEventHandler.init.
Begin(q) ==
    LET page == req[q].msg = Page
        run  == used.runs + 1
    IN /\ At(q, "begin")
       /\ \E kept \in Kept(IF page THEN req[q].st ELSE Cleaned(req[q].st)) :
            Become(q, [Goes(q, IF kept.told = <<>> THEN "push" ELSE "replay") EXCEPT
                         !.run = run, !.st = [kept EXCEPT !.run = run]])
       /\ active' = IF page THEN active ELSE active \cup {[run |-> run, msg |-> req[q].msg]}
       /\ used' = [used EXCEPT !.runs = run]
       /\ UNCHANGED <<mysqlVars, stream>>

-----------------------------------------------------------------------------
(* Following a run.                                                         *)

\* Seeded fault: the end of any task ends the stream.
EndOfTask(s) == Last(s).kind \in {"complete", "final"}

\* Only the last record that was read is looked at.
EndOfRun(s) == Last(s).kind = "final"

\* A read returns what is there, or less: it has a limit.
Follow(q) ==
    /\ At(q, "follow")
    /\ \E n \in DOMAIN After(req[q].run, Heard(q)) :
         LET new == SubSeq(After(req[q].run, Heard(q)), 1, n)
         IN Become(q, [(IF EndOfRun(new) THEN Ends(q, "ok") ELSE req[q])
                        EXCEPT !.heard = @ \o [k \in DOMAIN new |-> new[k].id]])
    /\ UNCHANGED <<mysqlVars, redisVars, used>>

\* No record for 30 s, and a run that lives says one every 15 s.  The session as
\* it was loaded is stored under a new run id, and the page is told to load.
TimeOut(q) ==
    LET run == used.runs + 1
        st  == [req[q].st EXCEPT !.run = run]
    IN /\ At(q, "follow") /\ After(req[q].run, Heard(q)) = <<>> /\ ~Writes(req[q].run)
       /\ IF req[q].st.run = 0
          THEN Become(q, Ends(q, "reload")) /\ UNCHANGED <<rows, used>>
          ELSE /\ used' = [used EXCEPT !.runs = run]
               /\ \/ CanSave(q) /\ rows' = Saved(q, st) /\ Become(q, Ends(q, "reload"))
                  \/ ~CanSave(q) /\ UNCHANGED rows /\ Become(q, Ends(q, "error"))
       /\ UNCHANGED <<history, written, redisVars>>

-----------------------------------------------------------------------------
(* Running.                                                                 *)

\* Tells again what the run before had finished and never saved.
Replay(q) ==
    LET told  == req[q].st.told
        kinds == [k \in 1..(2 * Len(told) - 1) |-> IF k % 2 = 1 THEN "chunk" ELSE "complete"]
    IN /\ At(q, "replay")
       /\ Emit(q, kinds, [Goes(q, "push") EXCEPT !.seen = told])
       /\ UNCHANGED <<mysqlVars, active, used>>

\* A call raises.  With a task in the last checkpoint the run goes back to it.
Failed(q) ==
    IF req[q].pc \in {"push", "work", "start", "answer"} /\ req[q].st.task # {}
    THEN Goes(q, "rollback") ELSE Ends(q, "error")

\* A checkpoint of st, and where the request goes after it.
Checkpoint(q, st, next) ==
    \/ /\ CanSave(q)
       /\ rows' = Saved(q, st)
       /\ Become(q, [Goes(q, next) EXCEPT !.ver = Version(q), !.st = st])
    \/ /\ ~CanSave(q)
       /\ UNCHANGED rows
       /\ Become(q, Failed(q))

\* The first checkpoint stores the run id and the message.
Push(q) ==
    /\ At(q, "push")
    /\ Checkpoint(q, [req[q].st EXCEPT !.queue =
                        IF req[q].msg = Page THEN @ ELSE Append(@, Item(req[q].msg))],
                  "work")
    /\ UNCHANGED <<history, written, redisVars, used>>

\* The task that a run before was working on.
Continue(q) ==
    /\ At(q, "work")
    /\ \E t \in req[q].st.task :
         Emit(q, TaskKinds(q), [Sees(q, t) EXCEPT !.pc = "answer"])
    /\ UNCHANGED <<mysqlVars, active, used>>

\* A response for which no task waits is dropped without a record.
Take(q) ==
    /\ At(q, "work") /\ req[q].st.task = {} /\ req[q].st.queue # <<>>
    /\ \/ \E t \in Taken(req[q].st).task :
             Emit(q, TaskKinds(q), [Sees(q, t) EXCEPT !.pc = "start"])
       \/ /\ Taken(req[q].st).task = {}
          /\ Become(q, [Goes(q, "start") EXCEPT
                          !.late = @ \/ Head(req[q].st.queue).msg = req[q].msg])
          /\ UNCHANGED stream
    /\ UNCHANGED <<mysqlVars, active, used>>

\* The checkpoint after an input or a response was taken.
Start(q) ==
    LET st == Taken(req[q].st)
    IN /\ At(q, "start")
       /\ Checkpoint(q, st, IF st.task = {} THEN "work" ELSE "answer")
       /\ UNCHANGED <<history, written, redisVars, used>>

\* What a task leaves in the queue: the input for another agent after a handoff,
\* or the response of resume_task to a request.
Leaves(st) ==
    {<<>>} \cup {<<[msg |-> Wake, req |-> n]>> : n \in {0} \cup {t.req : t \in st.paused}}

\* The task has finished.
Answer(q) ==
    /\ At(q, "answer")
    /\ \E t \in req[q].st.task, left \in Leaves(req[q].st) :
         /\ used.events + Len(left) <= MaxEvents
         /\ used' = [used EXCEPT !.events = @ + Len(left)]
         /\ Checkpoint(q, [req[q].st EXCEPT !.queue = @ \o left, !.task = {},
                                            !.told = Append(@, t)], "work")
    /\ UNCHANGED <<history, written, redisVars>>

\* The task waits for the response to a request of its own.
Pause(q) ==
    /\ At(q, "answer") /\ used.events < MaxEvents
    /\ used' = [used EXCEPT !.pauses = @ + 1, !.events = @ + 1]
    /\ \E t \in req[q].st.task : Checkpoint(q, Pausing(req[q].st, t), "work")
    /\ UNCHANGED <<history, written, redisVars>>

\* _pause_task_after_exception: the task is paused and the run ends with it.
Rollback(q) ==
    /\ At(q, "rollback")
    /\ used' = [used EXCEPT !.pauses = @ + 1]
    /\ \E t \in req[q].st.task :
         LET st    == Pausing(req[q].st, t)
             kinds == IF req[q].seen # <<>> /\ Last(req[q].seen) = t
                      THEN <<"chunk">> ELSE TaskKinds(q)
         IN \/ CanSave(q) /\ rows' = Saved(q, st)
               /\ Emit(q, kinds, [Goes(q, "save") EXCEPT !.ver = Version(q), !.st = st])
            \/ ~CanSave(q) /\ UNCHANGED rows
               /\ Emit(q, kinds, Ends(q, "error"))
    /\ UNCHANGED <<history, written, active>>

Finished(q) ==
    \/ At(q, "save")
    \/ At(q, "work") /\ req[q].st.task = {} /\ req[q].st.queue = <<>>

Written(run) == run \in written

\* _save_history_events, once for a run; a run that saw nothing saves nothing.
SaveHistory(q) ==
    /\ Finished(q)
    /\ Become(q, Goes(q, "close"))
    /\ IF req[q].seen = <<>> \/ Written(req[q].run)
       THEN UNCHANGED mysqlVars
       ELSE /\ history' = history \o req[q].seen
            /\ written' = written \cup {req[q].run}
            /\ UNCHANGED rows
    /\ UNCHANGED <<redisVars, used>>

\* Runtime.finish.
Close(q) ==
    /\ At(q, "close")
    /\ Checkpoint(q, Cleaned(req[q].st), "tell")
    /\ UNCHANGED <<history, written, redisVars, used>>

\* send_complete, when the heartbeats have stopped.
Tell(q) ==
    /\ At(q, "tell")
    /\ Emit(q, <<"final">>, Goes(q, "drop"))
    /\ UNCHANGED <<mysqlVars, active, used>>

\* finish_run, and the end of the response.
Drop(q) ==
    /\ At(q, "drop")
    /\ active' = {a \in active : a.run # req[q].run}
    /\ Become(q, Ends(q, "ok"))
    /\ UNCHANGED <<mysqlVars, stream, used>>

Beat(q) ==
    /\ req[q].pc \in Beating /\ used.events < MaxEvents
    /\ Emit(q, <<"beat">>, req[q])
    /\ used' = [used EXCEPT !.events = @ + 1]
    /\ UNCHANGED <<mysqlVars, active>>

-----------------------------------------------------------------------------
(* What fails, and what Redis forgets.                                       *)

Fault(q) ==
    /\ q \in Served /\ used.events < MaxEvents
    /\ used' = [used EXCEPT !.events = @ + 1]
    /\ Become(q, Failed(q))
    /\ UNCHANGED <<mysqlVars, redisVars>>

\* The server stops and starts; MySQL and Redis stay.
Crash ==
    /\ used.events < MaxEvents
    /\ Served # {}
    /\ used' = [used EXCEPT !.events = @ + 1]
    /\ req' = [q \in Requests |-> IF q \in Served THEN Ends(q, "dead") ELSE req[q]]
    /\ UNCHANGED <<mysqlVars, redisVars>>

\* A stream without a writer and a reader expires.
Expire ==
    /\ used.events < MaxEvents
    /\ used' = [used EXCEPT !.events = @ + 1]
    /\ \E run \in Runs :
         /\ stream[run] # <<>> /\ ~Writes(run)
         /\ ~\E q \in Requests : At(q, "follow") /\ req[q].run = run
         /\ stream' = [stream EXCEPT ![run] = <<>>]
    /\ UNCHANGED <<mysqlVars, active, req>>

\* The index of active runs expires ten minutes after the last one registered.
ExpireIndex ==
    /\ active # {} /\ used.events < MaxEvents
    /\ active' = {}
    /\ used' = [used EXCEPT !.events = @ + 1]
    /\ UNCHANGED <<mysqlVars, stream, req>>

-----------------------------------------------------------------------------
Init ==
    /\ rows = {} /\ history = <<>> /\ written = {}
    /\ active = {} /\ stream = [run \in Runs |-> <<>>]
    /\ req = [q \in Requests |-> NewRequest]
    /\ used = [runs |-> 0, pauses |-> 0, events |-> 0]

Run(q) ==
    \/ Replay(q) \/ Push(q) \/ Continue(q) \/ Take(q) \/ Start(q)
    \/ Answer(q) \/ Pause(q) \/ Rollback(q)
    \/ SaveHistory(q) \/ Close(q) \/ Tell(q) \/ Drop(q)

Serve(q) ==
    \/ Load(q) \/ Find(q) \/ Check(q) \/ Lookup(q) \/ Begin(q)
    \/ Follow(q) \/ TimeOut(q) \/ Run(q)

Next ==
    \/ \E q \in Requests : Arrive(q) \/ Serve(q) \/ Beat(q) \/ Fault(q)
    \/ Crash \/ Expire \/ ExpireIndex

\* The tasks of the event loop are scheduled again and again.
Fairness == \A q \in Requests : WF_vars(Serve(q))

Spec == Init /\ [][Next]_vars /\ Fairness

-----------------------------------------------------------------------------
(* Properties.                                                              *)

\* Whoever is told that an input is answered finds it in the history, whether the
\* request ran it or followed the run of another; and a response that is said to
\* be answered is in the row of the task it woke, unless the run heard no task
\* that waited for it (service.py saves the history before it closes the runtime,
\* "so that the result is not lost").
AnsweredIsSaved ==
    \A q \in Requests :
      req[q].result = "ok" /\ req[q].msg # Page =>
        \/ req[q].msg \notin Responses /\ Known(req[q].msg)
        \/ req[q].msg \in Responses /\ \E k \in DOMAIN history : history[k].by = req[q].msg
        \/ req[q].msg \in Responses /\ \E p \in Requests : req[p].run = req[q].run /\ req[p].late

\* A client hears the records of one run without a gap and without a repetition,
\* from the one after the last it had; and when it is told that the response
\* has ended it has heard the run to its very last record.
HeardWhole ==
    \A q \in Requests :
      /\ \A k \in DOMAIN req[q].heard : req[q].heard[k] = req[q].last + k
      /\ req[q].result = "ok" =>
           \A p \in Requests : req[p].run = req[q].run /\ req[p].id > 0 => Heard(q) = req[p].id

\* A run that said it is complete says nothing more, and has left the stored
\* sessions: a page that loads does not run it again (send_complete after finish).
CompleteIsClosed ==
    \A run \in Runs : \A i \in DOMAIN stream[run] :
      stream[run][i].kind = "final" =>
        i = Len(stream[run]) /\ \A r \in rows : r.st.run # run

\* Every request ends: it is answered, told to load the page or told of an error.
EveryRequestEnds ==
    \A q \in Requests : At(q, "load") ~> At(q, "ended")

\* The history has an input once, though its run is resumed after a crash or
\* asked for twice ("every run_id is written once, so that a retry or a resume
\* does not project it twice", _save_history_events).
HistoryOnce ==
    \A m \in Messages \ Responses :
      Cardinality({k \in DOMAIN history : history[k] = [row |-> m, by |-> m]}) <= 1
=============================================================================
