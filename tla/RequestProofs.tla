---------------------------- MODULE RequestProofs ----------------------------
(***************************************************************************)
(* Requests of ServerRequests: who is told that an input is answered finds  *)
(* it in the history, and a response in the row of the task it woke unless  *)
(* none waited; nobody hears a record twice or misses one, and a run that   *)
(* said it is complete is not in the store.                                 *)
(*                                                                         *)
(* Three facts carry the proof.  A run has one owner, the request that      *)
(* began it, and only the owner writes into its stream, so a record's       *)
(* number is its place.  The owner is also the only one that stores the     *)
(* run, and it holds the version of every row that names it, so the save    *)
(* that closes the session removes them all.  And whoever comes to a run    *)
(* by a message comes to the run of that message, through the index of      *)
(* active runs, so the record that ends the run answers it.                 *)
(***************************************************************************)
EXTENDS ServerRequests, SequenceTheorems, FiniteSetTheorems, TLAPS

Ids       == Messages \cup {Wake}
Items     == [msg : Ids, req : Nat]
Tasks     == [row : Ids, by : Ids]
Early     == {"none", "load", "find", "check", "lookup", "begin"}
Owning    == Working \cup {"drop"}
Closing   == {"close", "tell", "drop"}
Kinds     == {"chunk", "complete", "beat", "final"}
Results   == {"none", "ok", "reload", "error", "dead"}
Sessions  ==
    [run : Nat, queue : Seq(Items), task : SUBSET Tasks,
     paused : SUBSET [row : Ids, req : Nat], told : Seq(Tasks)]
Rows      == [ver : Nat, st : Sessions]
Records   == [id : Nat, kind : Kinds]
RequestSet ==
    [pc : Early \cup {"follow", "ended"} \cup Owning, msg : Messages \cup {Page},
     last : Nat, ver : Nat, st : Sessions, run : Nat, id : Nat, seen : Seq(Tasks),
     late : BOOLEAN, heard : Seq(Nat), result : Results]

\* The store has a newest version, unless it is empty.
HasNewest == rows = {} \/ \E r \in rows : \A s \in rows : s.ver <= r.ver

Typed ==
    /\ rows \subseteq Rows /\ HasNewest
    /\ history \in Seq(Tasks) /\ written \subseteq Nat
    /\ active \subseteq [run : Nat, msg : Messages]
    /\ stream \in [Runs -> Seq(Records)]
    /\ req \in [Requests -> RequestSet]
    /\ used \in [runs : Nat, pauses : Nat, events : Nat]

\* What a sequence of tasks says of a message: an input is the first of a task, a
\* response the last a task was given.
Has(m, tasks) == \E t \in ToSet(tasks) : IF m \in Responses THEN t.by = m ELSE t.row = m
Done(r) == Has(r.msg, r.seen) \/ (r.msg \in Responses /\ r.late)

\* What a request keeps by itself.
Formed(r) ==
    /\ \A k \in DOMAIN r.heard : r.heard[k] = r.last + k
    /\ r.msg = Page \/ r.pc = "begin" => r.last = 0
    /\ r.pc \in Early \cup {"follow"} =>
         r.id = 0 /\ r.result = "none" /\ r.seen = <<>> /\ ~r.late
    /\ r.pc \in Early => r.heard = <<>>
    /\ r.pc \in Owning => r.result = "none"
    /\ r.pc \in Owning \/ r.id > 0 =>
         /\ r.pc \in Owning \cup {"ended"}
         /\ r.last = 0 /\ Len(r.heard) = r.id /\ r.run > 0
    /\ r.pc = "follow" => r.run > 0
    /\ r.pc = "replay" => r.st.told # <<>>
    /\ r.pc = "start" => r.st.queue # <<>>
    /\ r.pc \in Working => r.st.run = IF r.pc = "tell" THEN 0 ELSE r.run
    /\ r.msg # Page =>
         /\ r.pc # "replay"
         /\ r.pc = "push" => r.st.queue = <<>> /\ r.st.task = {}
         /\ r.pc = "work" =>
              \/ Done(r)
              \/ r.st.task = {} /\ r.st.queue # <<>> /\ Head(r.st.queue) = Item(r.msg)
         /\ r.pc \in {"start", "answer", "rollback", "save"} => Done(r)

\* The request that began its run.
Owner(r) == r.pc \in Owning \/ r.id > 0

\* Runs are numbered, one for a request at most.
Spent == {q \in Requests : req[q].pc \in Owning \cup {"ended"}}

RunsInv ==
    /\ used.runs <= Cardinality(Spent)
    /\ \A q \in Requests : req[q].run <= used.runs /\ req[q].st.run <= used.runs
    /\ \A r \in rows : r.st.run <= used.runs
    /\ \A a \in active : a.run <= used.runs /\ a.run > 0
    /\ \A run \in written : run <= used.runs
    /\ \A run \in Runs : run > used.runs => stream[run] = <<>>

OwnersInv ==
    \A p, q \in Requests :
        Owner(req[p]) /\ Owner(req[q]) /\ req[p].run = req[q].run => p = q

\* The number of a record is its place.
StreamsInv ==
    /\ \A run \in Runs : \A k \in DOMAIN stream[run] : stream[run][k].id = k
    /\ \A q \in Requests :
         Owner(req[q]) /\ req[q].run \in Runs =>
           \/ Len(stream[req[q].run]) = req[q].id
           \/ stream[req[q].run] = <<>> /\ req[q].pc \notin Working

\* The last record of a run, after which nobody writes or stores it.
FinalInv ==
    \A run \in Runs : \A i \in DOMAIN stream[run] :
        stream[run][i].kind = "final" =>
          /\ i = Len(stream[run])
          /\ \A r \in rows : r.st.run # run
          /\ \A q \in Requests : req[q].run = run => req[q].pc \notin Working

\* The owner of a run holds the version of the rows that name it.
RowsInv ==
    \A q \in Requests : \A r \in rows :
        req[q].pc \in Working /\ r.st.run = req[q].run =>
          r.ver = req[q].ver /\ req[q].pc # "tell"

\* A request that follows a run for its message.
Follows(r) == r.pc \in {"check", "follow"} /\ r.msg # Page /\ r.run > 0

\* The history has a message, or its run found no task that waited for it.
LateIn(run, r) == \E q \in Requests : r[q].run = run /\ r[q].late
Settled(run, m, h, r) == Has(m, h) \/ (m \in Responses /\ LateIn(run, r))
Answered(run, m, s, h, r) ==
    \A i \in DOMAIN s[run] : s[run][i].kind = "final" => Settled(run, m, h, r)

AnswersInv ==
    /\ \A q \in Requests :
         /\ req[q].pc \in Working \ Closing => req[q].run \notin written
         /\ req[q].pc \in Closing /\ req[q].msg # Page => Settled(req[q].run, req[q].msg, history, req)
         /\ Owner(req[q]) =>
              /\ \A a \in active : a.run = req[q].run => a.msg = req[q].msg
              /\ \A p \in Requests :
                   Follows(req[p]) /\ req[p].run = req[q].run => req[p].msg = req[q].msg
    /\ \A a \in active : a.run \in Runs => Answered(a.run, a.msg, stream, history, req)
    /\ \A q \in Requests :
         Follows(req[q]) /\ req[q].run \in Runs => Answered(req[q].run, req[q].msg, stream, history, req)

OkInv ==
    \A q \in Requests : req[q].result = "ok" =>
        /\ req[q].msg # Page => Settled(req[q].run, req[q].msg, history, req)
        /\ \A p \in Requests :
             Owner(req[p]) /\ req[p].run = req[q].run =>
               req[p].pc \notin Working /\ req[q].last + Len(req[q].heard) = req[p].id

RequestsInv ==
    /\ Typed /\ \A q \in Requests : Formed(req[q])
    /\ RunsInv /\ OwnersInv /\ StreamsInv /\ FinalInv /\ RowsInv /\ AnswersInv /\ OkInv

-----------------------------------------------------------------------------
(* Sequences.                                                               *)

LEMMA SeqOfLength ==
    ASSUME NEW S, NEW n \in Nat, NEW s \in [1..n -> S]
    PROVE  s \in Seq(S) /\ Len(s) = n /\ DOMAIN s = 1..n
<1>1. s \in Seq(S)
    BY SeqDef
<1>2. DOMAIN s = 1..n /\ DOMAIN s = 1..Len(s) /\ Len(s) \in Nat
    BY <1>1, LenProperties
<1>3. Len(s) = n
    BY <1>2
<1> QED BY <1>1, <1>2, <1>3

LEMMA ToSetAppend ==
    ASSUME NEW S, NEW s \in Seq(S), NEW x \in S
    PROVE  Append(s, x) \in Seq(S) /\ ToSet(Append(s, x)) = ToSet(s) \cup {x}
<1>1. /\ DOMAIN Append(s, x) = DOMAIN s \cup {Len(s) + 1}
      /\ Append(s, x)[Len(s) + 1] = x
      /\ \A i \in DOMAIN s : Append(s, x)[i] = s[i]
    OBVIOUS
<1> QED BY <1>1 DEF ToSet

LEMMA ToSetConcat ==
    ASSUME NEW S, NEW s \in Seq(S), NEW t \in Seq(S)
    PROVE  s \o t \in Seq(S) /\ ToSet(s \o t) = ToSet(s) \cup ToSet(t)
<1> DEFINE u == s \o t
<1>1. /\ u \in Seq(S) /\ Len(u) = Len(s) + Len(t) /\ Len(s) \in Nat /\ Len(t) \in Nat
      /\ \A i \in 1..(Len(s) + Len(t)) :
           u[i] = IF i <= Len(s) THEN s[i] ELSE t[i - Len(s)]
      /\ DOMAIN s = 1..Len(s) /\ DOMAIN t = 1..Len(t) /\ DOMAIN u = 1..Len(u)
    BY ConcatProperties, LenProperties
<1> HIDE DEF u
<1>2. ToSet(u) \subseteq ToSet(s) \cup ToSet(t)
    <2> SUFFICES ASSUME NEW i \in DOMAIN u PROVE u[i] \in ToSet(s) \cup ToSet(t)
        BY DEF ToSet
    <2>1. CASE i <= Len(s)
        BY <1>1, <2>1 DEF ToSet
    <2>2. CASE ~(i <= Len(s))
        <3>1. i - Len(s) \in DOMAIN t /\ u[i] = t[i - Len(s)]
            BY <1>1, <2>2
        <3> QED BY <3>1 DEF ToSet
    <2> QED BY <2>1, <2>2
<1>3. ToSet(s) \subseteq ToSet(u)
    BY <1>1 DEF ToSet
<1>4. ToSet(t) \subseteq ToSet(u)
    <2> SUFFICES ASSUME NEW i \in DOMAIN t PROVE t[i] \in ToSet(u)
        BY DEF ToSet
    <2>1. i + Len(s) \in DOMAIN u /\ u[i + Len(s)] = t[i]
        BY <1>1
    <2> QED BY <2>1 DEF ToSet
<1> QED BY <1>1, <1>2, <1>3, <1>4 DEF u

-----------------------------------------------------------------------------
(* The store.                                                               *)

LEMMA SessionTyped ==
    /\ Session \in Sessions /\ Session.run = 0
    /\ \A st \in Sessions : /\ Cleaned(st) \in Sessions /\ Cleaned(st).run = 0
                            /\ Cleaned(st).queue = <<>> /\ Cleaned(st).task = {}
                            /\ Cleaned(st).told = <<>>
<1>1. <<>> \in Seq(Items) /\ <<>> \in Seq(Tasks)
    BY EmptySeq
<1> QED BY <1>1 DEF Session, Sessions, Cleaned

\* What is dropped of a session that is loaded are paused tasks.
LEMMA KeptTyped ==
    ASSUME NEW st \in Sessions, NEW kept \in Kept(st)
    PROVE  /\ kept \in Sessions /\ kept.run = st.run /\ kept.queue = st.queue
           /\ kept.task = st.task /\ kept.told = st.told
<1>1. PICK some \in SUBSET st.paused : kept = [st EXCEPT !.paused = some]
    BY DEF Kept
<1> QED BY <1>1 DEF Sessions

LEMMA ItemTyped ==
    ASSUME NEW m \in Messages
    PROVE  Item(m) \in Items /\ Item(m).msg = m /\ (m \notin Responses => Item(m).req = 0)
BY RequestAssumption DEF Item, Items, Ids

\* What an item of the queue makes the task: an input a new one, a response the one
\* that waits for it.
LEMMA TakenTyped ==
    ASSUME NEW st \in Sessions, st.queue # <<>>
    PROVE  /\ Taken(st) \in Sessions /\ Taken(st).run = st.run
           /\ \A t \in Taken(st).task :
                /\ t \in Tasks /\ t.by = Head(st.queue).msg
                /\ Head(st.queue).req = 0 => t.row = t.by
           /\ Head(st.queue).req = 0 => Taken(st).task # {}
<1>1. PICK item, rest, woken :
        /\ item = Head(st.queue) /\ rest = Tail(st.queue)
        /\ woken = {t \in st.paused : t.req = item.req}
    OBVIOUS
<1>2. item \in Items /\ rest \in Seq(Items)
    BY <1>1, HeadTailProperties DEF Sessions
<1>3. PICK task : task = IF item.req = 0 THEN {[row |-> item.msg, by |-> item.msg]}
                         ELSE {[row |-> t.row, by |-> item.msg] : t \in woken}
    OBVIOUS
<1>4. \A t \in task : /\ t \in Tasks /\ t.by = item.msg
                      /\ item.req = 0 => t.row = t.by
    BY <1>1, <1>2, <1>3 DEF Sessions, Tasks, Items
<1>5. item.req = 0 => task # {}
    BY <1>3
<1>6. Taken(st) = [st EXCEPT !.queue = rest, !.paused = st.paused \ woken, !.task = task]
    BY <1>1, <1>3 DEF Taken, Sessions
<1>7. /\ Taken(st) \in Sessions /\ Taken(st).run = st.run /\ Taken(st).task = task
    BY <1>2, <1>4, <1>6 DEF Sessions
<1> QED BY <1>1, <1>4, <1>5, <1>7

LEMMA PausingTyped ==
    ASSUME Typed, NEW st \in Sessions, NEW t \in Tasks
    PROVE  Pausing(st, t) \in Sessions /\ Pausing(st, t).run = st.run
<1>1. PICK more : more = [row |-> t.row, req |-> used.pauses + 1]
    OBVIOUS
<1>2. more \in [row : Ids, req : Nat]
    BY <1>1 DEF Typed, Tasks
<1>3. Pausing(st, t) = [st EXCEPT !.task = {}, !.paused = st.paused \cup {more}]
    BY <1>1 DEF Pausing, Sessions
<1> QED BY <1>2, <1>3 DEF Sessions

\* The newest version, which a request loads.
LEMMA NewestTyped ==
    ASSUME Typed
    PROVE  /\ Newest.ver \in Nat /\ Newest.st \in Sessions
           /\ \A r \in rows : r.ver <= Newest.ver
           /\ Newest.st = Session \/ \E r \in rows : Newest.st = r.st
<1>1. \E r \in rows \cup {[ver |-> 0, st |-> Session]} : \A v \in Versions : v <= r.ver
    BY DEF Typed, HasNewest, Versions
<1>2. /\ Newest \in rows \cup {[ver |-> 0, st |-> Session]}
      /\ \A v \in Versions : v <= Newest.ver
    BY <1>1 DEF Newest
<1> QED BY <1>2, SessionTyped DEF Typed, Versions, Rows

\* A save keeps the store in order.
LEMMA SavedTyped ==
    ASSUME Typed, NEW q \in Requests, CanSave(q), NEW st \in Sessions, rows' = Saved(q, st)
    PROVE  /\ rows' \subseteq Rows /\ HasNewest' /\ Version(q) \in Nat
           /\ rows' = {r \in rows : r.ver # req[q].ver} \cup {[ver |-> Version(q), st |-> st]}
<1>1. PICK v, n : v = Version(q) /\ n = Newest.ver
    OBVIOUS
<1>2. /\ req[q].ver \in Nat /\ \A r \in rows : r.ver \in Nat
    BY DEF Typed, RequestSet, Rows
<1>3. n \in Nat /\ \A r \in rows : r.ver <= n
    BY <1>1, NewestTyped
<1>4. v \in Nat /\ v = (IF req[q].ver \in Versions THEN req[q].ver + 1 ELSE n + 1)
    BY <1>1, <1>2, <1>3 DEF Version
<1>5. PICK new : new = [ver |-> v, st |-> st]
    OBVIOUS
<1>6. new \in Rows /\ new.ver = v
    BY <1>4, <1>5 DEF Rows
<1>7. rows' = {r \in rows : r.ver # req[q].ver} \cup {new}
    BY <1>1, <1>5 DEF Saved
<1>8. HasNewest'
    <2>1. CASE \A r \in rows : r.ver <= v
        BY <1>2, <1>4, <1>6, <1>7, <2>1 DEF HasNewest
    <2>2. CASE ~(\A r \in rows : r.ver <= v)
        <3>1. PICK top \in rows : \A s \in rows : s.ver <= top.ver
            BY <2>2 DEF Typed, HasNewest
        <3>2. top.ver > v
            BY <1>2, <1>4, <2>2, <3>1
        <3>3. v = req[q].ver + 1
            BY <1>2, <1>3, <1>4, <3>2
        <3>4. top \in rows'
            BY <1>2, <1>7, <3>2, <3>3
        <3> QED BY <1>2, <1>4, <1>6, <1>7, <3>1, <3>2, <3>4 DEF HasNewest
    <2> QED BY <2>1, <2>2
<1> QED BY <1>1, <1>4, <1>5, <1>6, <1>7, <1>8 DEF Typed


-----------------------------------------------------------------------------
(* The runs.                                                                *)

LEMMA SpentCounts ==
    /\ Cardinality(Requests) \in Nat /\ Cardinality(Spent) \in Nat /\ IsFiniteSet(Spent)
    /\ Cardinality(Spent) <= Cardinality(Requests)
    /\ \A q \in Requests : q \notin Spent => Cardinality(Spent) + 1 <= Cardinality(Requests)
    /\ Runs = 1..Cardinality(Requests)
<1>1. IsFiniteSet(Requests) /\ Runs = 1..Cardinality(Requests) /\ Spent \subseteq Requests
    BY RequestAssumption DEF Runs, Spent
<1>2. /\ IsFiniteSet(Spent) /\ Cardinality(Spent) <= Cardinality(Requests)
      /\ Cardinality(Requests) \in Nat /\ Cardinality(Spent) \in Nat
    BY <1>1, FS_Subset, FS_CardinalityType
<1>3. ASSUME NEW q \in Requests, q \notin Spent
      PROVE  Cardinality(Spent) + 1 <= Cardinality(Requests)
    <2>1. PICK more : more = Spent \cup {q}
        OBVIOUS
    <2>2. Cardinality(more) = Cardinality(Spent) + 1
        BY <1>2, <1>3, <2>1, FS_AddElement
    <2>3. more \subseteq Requests
        BY <1>1, <2>1
    <2> QED BY <1>1, <2>2, <2>3, FS_Subset
<1> QED BY <1>1, <1>2, <1>3

\* A run that was given out has a stream.
LEMMA GivenRuns ==
    ASSUME Typed, RunsInv
    PROVE  /\ used.runs \in Nat /\ \A run \in Nat : run > 0 /\ run <= used.runs => run \in Runs
           /\ \A q \in Requests : q \notin Spent => used.runs + 1 \in Runs
           /\ \A q \in Requests : req[q].run > 0 => req[q].run \in Runs
           /\ \A a \in active : a.run \in Runs
<1>1. used.runs \in Nat /\ used.runs <= Cardinality(Spent)
    BY DEF Typed, RunsInv
<1>2. \A run \in Nat : run > 0 /\ run <= used.runs => run \in Runs
    BY <1>1, SpentCounts
<1>3. \A q \in Requests : q \notin Spent => used.runs + 1 \in Runs
    BY <1>1, SpentCounts
<1>4. /\ \A q \in Requests : req[q].run \in Nat /\ req[q].run <= used.runs
      /\ \A a \in active : a.run \in Nat /\ a.run <= used.runs /\ a.run > 0
    BY DEF Typed, RunsInv, RequestSet
<1> QED BY <1>1, <1>2, <1>3, <1>4

-----------------------------------------------------------------------------
(* The ways of a step.                                                      *)

Alone(q) == \A p \in Requests : p # q => req'[p] = req[p]

\* What tells the run of a request stays.
SameRun(q) ==
    /\ req'[q].run = req[q].run /\ req'[q].msg = req[q].msg /\ req'[q].last = req[q].last

\* A request that has no run of its own goes on, or ends: it may give up, and store
\* the session under a fresh run.
Waits(q) ==
    /\ Alone(q)
    /\ req[q].pc \in Early \cup {"follow"} /\ req'[q].id = 0
    /\ req'[q].pc \in Early \cup {"follow", "ended"}
    /\ UNCHANGED <<history, written, active, stream>>
    /\ \/ used'.runs = used.runs /\ rows' = rows
       \/ /\ used'.runs = used.runs + 1 /\ req'[q].pc = "ended"
          /\ \A r \in rows' : r \in rows \/ r.st.run = used'.runs
    /\ req'[q].run <= used.runs /\ req'[q].st.run <= used.runs
    /\ Follows(req'[q]) => \/ Follows(req[q]) /\ SameRun(q)
                           \/ [run |-> req'[q].run, msg |-> req'[q].msg] \in active
    /\ req'[q].result = "ok" =>
         /\ req[q].pc = "follow" /\ SameRun(q)
         /\ \E i \in DOMAIN stream[req[q].run] :
              /\ stream[req[q].run][i].kind = "final"
              /\ req'[q].last + Len(req'[q].heard) = i

\* A request begins a run of its own.
Begins(q) ==
    /\ Alone(q)
    /\ req[q].pc = "begin" /\ req'[q].pc \in {"replay", "push"} /\ req'[q].id = 0
    /\ req'[q].msg = req[q].msg /\ req'[q].result # "ok"
    /\ req'[q].run = used.runs + 1 /\ req'[q].st.run = used.runs + 1
    /\ used'.runs = used.runs + 1
    /\ \A a \in active' : a \in active \/ a = [run |-> used.runs + 1, msg |-> req[q].msg]
    /\ UNCHANGED <<rows, history, written, stream>>

\* Records are added to the stream of the request's run, and told.
Tells(q, kinds) ==
    \E n \in Nat :
      /\ req'[q].id = req[q].id + n
      /\ \A run \in Runs \ {req[q].run} : stream'[run] = stream[run]
      /\ LET s == stream[req[q].run]
             t == stream'[req[q].run]
         IN /\ Len(t) = Len(s) + n
            /\ \A k \in 1..Len(s) : t[k] = s[k]
            /\ \A k \in 1..n : t[Len(s) + k].id = req[q].id + k /\ t[Len(s) + k].kind \in kinds

\* The request saves its session, and holds the version it saved.
Saves(q, run) ==
    \E new \in rows' :
      /\ \A r \in rows' : r = new \/ (r \in rows /\ r.ver # req[q].ver)
      /\ new.st.run = run /\ (req'[q].pc # "ended" => new.ver = req'[q].ver)

\* A request goes on with its run, or fails.
Works(q) ==
    /\ Alone(q)
    /\ SameRun(q) /\ (req[q].late => req'[q].late) /\ req[q].pc \in Working /\ req'[q].pc \in Owning \cup {"ended"}
    /\ req'[q].result # "ok" /\ req'[q].st.run \in {0, req[q].run}
    /\ used'.runs = used.runs /\ active' = active
    /\ \/ stream' = stream /\ req'[q].id = req[q].id
       \/ Tells(q, Kinds \ {"final"})
       \/ /\ req[q].pc = "tell" /\ req'[q].pc = "drop" /\ req'[q].id = req[q].id + 1
          /\ Tells(q, {"final"}) /\ rows' = rows
    /\ \/ /\ rows' = rows
          /\ req'[q].ver = req[q].ver \/ req'[q].pc = "ended"
          /\ req'[q].pc = "tell" => req[q].pc = "tell"
       \/ Saves(q, req[q].run) /\ req[q].pc # "tell" /\ req'[q].pc # "tell"
       \/ Saves(q, 0)
    /\ req[q].pc \in Closing => req'[q].pc \in Closing \cup {"ended"}
    /\ \/ /\ history' = history /\ written' = written
          /\ req'[q].pc \in Closing => req[q].pc \in Closing
       \/ /\ req[q].pc \notin Closing /\ req'[q].pc = "close"
          /\ ToSet(history) \subseteq ToSet(history')
          /\ req[q].msg # Page => Settled(req[q].run, req[q].msg, history', req')
          /\ written' \subseteq written \cup {req[q].run}

\* Its run is over.
Quits(q) ==
    /\ Alone(q)
    /\ SameRun(q) /\ req[q].pc = "drop" /\ req'[q].pc = "ended" /\ req'[q].st.run = 0
    /\ req'[q].id = req[q].id /\ req'[q].heard = req[q].heard /\ req'[q].late = req[q].late
    /\ active' \subseteq active /\ used'.runs = used.runs
    /\ UNCHANGED <<rows, history, written, stream>>

\* The server stops.
Stops ==
    /\ \A q \in Requests :
         \/ req'[q] = req[q]
         \/ /\ SameRun(q) /\ req'[q].pc = "ended" /\ req'[q].st.run = 0
            /\ req'[q].id = req[q].id /\ req'[q].result = "dead" /\ req'[q].late = req[q].late
    /\ used'.runs = used.runs
    /\ UNCHANGED <<rows, history, written, active, stream>>

\* Redis forgets streams that nobody writes, or the index of runs.
Fades ==
    /\ \A run \in Runs :
         \/ stream'[run] = stream[run]
         \/ stream'[run] = <<>> /\ \A q \in Requests : req[q].run = run => req[q].pc \notin Working
    /\ active' \subseteq active /\ used'.runs = used.runs
    /\ UNCHANGED <<rows, history, written, req>>

Way == \/ \E q \in Requests : Waits(q) \/ Begins(q) \/ Works(q) \/ Quits(q)
       \/ Stops \/ Fades

-----------------------------------------------------------------------------
(* Each part of the invariant is kept by each way of a step.                *)

\* The fields that the parts of the invariant speak of.
LEMMA FieldsTyped ==
    ASSUME Typed
    PROVE  /\ used.runs \in Nat
           /\ \A q \in Requests :
                /\ req[q].run \in Nat /\ req[q].id \in Nat /\ req[q].last \in Nat /\ req[q].ver \in Nat
                /\ req[q].st.run \in Nat /\ req[q].heard \in Seq(Nat)
           /\ \A run \in Runs : stream[run] \in Seq(Records)
           /\ \A r \in rows : r.ver \in Nat /\ r.st.run \in Nat
           /\ \A a \in active : a.run \in Nat /\ a.msg \in Messages
           /\ \A run \in written : run \in Nat
BY DEF Typed, RequestSet, Rows, Sessions

LEMMA RunsKept ==
    ASSUME RequestsInv, Typed', Way
    PROVE  RunsInv'
<1>0. Typed /\ RunsInv /\ \A q \in Requests : Formed(req[q])
    BY DEF RequestsInv
<1>1. /\ used.runs \in Nat /\ used.runs <= Cardinality(Spent)
      /\ \A q \in Requests : req[q].run \in Nat /\ req[q].run <= used.runs /\ req[q].st.run <= used.runs
      /\ \A r \in rows : r.st.run <= used.runs
      /\ \A a \in active : a.run <= used.runs /\ a.run > 0
      /\ \A run \in written : run <= used.runs
      /\ \A run \in Runs : run > used.runs => stream[run] = <<>>
    BY <1>0, FieldsTyped DEF RunsInv
<1>2. \A q \in Requests : req[q].st.run \in Nat
    BY <1>0, FieldsTyped
<1>3. /\ IsFiniteSet(Spent) /\ Cardinality(Spent) \in Nat
      /\ IsFiniteSet(Spent') /\ Cardinality(Spent') \in Nat
    <2>1. Spent' \subseteq Requests /\ IsFiniteSet(Requests)
        BY RequestAssumption DEF Spent
    <2> QED BY <2>1, SpentCounts, FS_Subset, FS_CardinalityType
<1>4. \/ used'.runs = used.runs
      \/ used'.runs = used.runs + 1 /\ \E q \in Requests : q \notin Spent /\ q \in Spent'
    BY DEF Way, Waits, Begins, Works, Quits, Stops, Fades, Spent, Owning, Early, Working
<1>5. Spent \subseteq Spent'
    BY ZenonT(40) DEF Way, Waits, Begins, Works, Quits, Stops, Fades, Spent, Owning, Early, Working, Alone
<1>6. used'.runs <= Cardinality(Spent')
    <2>1. CASE used'.runs = used.runs
        BY <1>1, <1>3, <1>5, <2>1, FS_Subset
    <2>2. ASSUME NEW q \in Requests, q \notin Spent, q \in Spent', used'.runs = used.runs + 1
          PROVE  used'.runs <= Cardinality(Spent')
        <3>1. PICK more : more = Spent \cup {q}
            OBVIOUS
        <3>2. Cardinality(more) = Cardinality(Spent) + 1 /\ more \subseteq Spent'
            BY <1>3, <1>5, <2>2, <3>1, FS_AddElement
        <3>3. Cardinality(more) <= Cardinality(Spent')
            BY <1>3, <3>2, FS_Subset
        <3> QED BY <1>1, <1>3, <2>2, <3>2, <3>3
    <2> QED BY <1>4, <2>1, <2>2
<1>5a. used'.runs \in Nat /\ used'.runs >= used.runs
    BY <1>1, <1>4
<1>7. \A q \in Requests : req'[q].run <= used'.runs /\ req'[q].st.run <= used'.runs
    <2>1. ASSUME NEW q \in Requests, Waits(q) \/ Begins(q) \/ Works(q) \/ Quits(q)
          PROVE  \A p \in Requests : req'[p].run <= used'.runs /\ req'[p].st.run <= used'.runs
        <3>1. /\ \A p \in Requests : req'[p].run \in Nat /\ req'[p].st.run \in Nat
              /\ \A p \in Requests : p # q => req'[p] = req[p]
            BY <2>1, FieldsTyped DEF Waits, Begins, Works, Quits, Alone, Typed, RequestSet, Sessions
        <3>2. req'[q].run <= used'.runs /\ req'[q].st.run <= used'.runs
            <4>1. CASE Waits(q)
                BY <1>1, <1>5a, <3>1, <4>1 DEF Waits
            <4>2. CASE Begins(q)
                BY <1>1, <1>5a, <3>1, <4>2 DEF Begins
            <4>3. CASE Works(q)
                BY <1>1, <1>5a, <3>1, <4>3 DEF Works, SameRun
            <4>4. CASE Quits(q)
                BY <1>1, <1>5a, <3>1, <4>4 DEF Quits, SameRun
            <4> QED BY <2>1, <4>1, <4>2, <4>3, <4>4
        <3>3. \A p \in Requests : p # q => req'[p].run <= used'.runs /\ req'[p].st.run <= used'.runs
            BY <1>1, <1>2, <1>5a, <3>1
        <3> QED BY <3>2, <3>3
    <2>2. CASE Stops
        BY <1>1, <1>2, <1>5a, <2>2 DEF Stops, SameRun
    <2>3. CASE Fades
        BY <1>1, <2>3 DEF Fades
    <2> QED BY <2>1, <2>2, <2>3 DEF Way
<1>8. /\ \A r \in rows' : r.st.run <= used'.runs
      /\ \A a \in active' : a.run <= used'.runs /\ a.run > 0
      /\ \A run \in written' : run <= used'.runs
    <2>0. /\ \A r \in rows : r.st.run \in Nat
          /\ \A a \in active : a.run \in Nat
          /\ \A run \in written : run \in Nat
        BY <1>0, FieldsTyped
    <2>1. ASSUME NEW q \in Requests, Waits(q)
          PROVE  /\ \A r \in rows' : r.st.run <= used'.runs
                 /\ active' = active /\ written' = written
        BY <1>1, <1>5a, <2>0, <2>1 DEF Waits
    <2>2. ASSUME NEW q \in Requests, Begins(q)
          PROVE  /\ \A a \in active' : a.run <= used'.runs /\ a.run > 0
                 /\ rows' = rows /\ written' = written
        BY <1>1, <1>5a, <2>0, <2>2 DEF Begins
    <2>3. ASSUME NEW q \in Requests, Works(q)
          PROVE  /\ \A r \in rows' : r.st.run <= used'.runs
                 /\ \A run \in written' : run <= used'.runs
                 /\ active' = active
        <3>1. req[q].run \in Nat /\ req[q].run <= used.runs /\ used'.runs = used.runs
              /\ 0 <= used.runs
            BY <1>1, <2>3 DEF Works
        <3>2. \A r \in rows' : r.st.run <= used'.runs
            <4>1. CASE rows' = rows
                BY <1>1, <3>1, <4>1
            <4>2. CASE Saves(q, req[q].run)
                BY <1>1, <3>1, <4>2 DEF Saves
            <4>3. CASE Saves(q, 0)
                BY <1>1, <3>1, <4>3 DEF Saves
            <4> QED BY <2>3, <4>1, <4>2, <4>3 DEF Works
        <3>3. \A run \in written' : run <= used'.runs
            BY <1>1, <2>3, <3>1 DEF Works
        <3> QED BY <2>3, <3>2, <3>3 DEF Works
    <2>4. ASSUME NEW q \in Requests, Quits(q)
          PROVE  active' \subseteq active /\ rows' = rows /\ written' = written
        BY <2>4 DEF Quits
    <2>5. ASSUME Stops \/ Fades
          PROVE  active' \subseteq active /\ rows' = rows /\ written' = written
        BY <2>5 DEF Stops, Fades
    <2> QED BY <1>1, <1>5a, <2>0, <2>1, <2>2, <2>3, <2>4, <2>5 DEF Way
<1>9. \A run \in Runs : run > used'.runs => stream'[run] = <<>>
    <2> SUFFICES ASSUME NEW run \in Runs, run > used'.runs PROVE stream'[run] = <<>>
        OBVIOUS
    <2>1. stream[run] = <<>> /\ run > used.runs
        BY <1>1, <1>4, SpentCounts
    <2>2. \A q \in Requests : req[q].run # run
        BY <1>1, <2>1
    <2>3. stream'[run] = stream[run] \/ stream'[run] = <<>>
        BY <2>2 DEF Way, Waits, Begins, Works, Quits, Stops, Fades, Tells
    <2> QED BY <2>1, <2>3
<1> QED BY <1>6, <1>7, <1>8, <1>9 DEF RunsInv

LEMMA OwnersKept ==
    ASSUME RequestsInv, Typed', Way
    PROVE  OwnersInv'
<1>0. OwnersInv /\ RunsInv /\ Typed /\ \A q \in Requests : Formed(req[q])
    BY DEF RequestsInv
<1>1. CASE \A q \in Requests : Owner(req'[q]) => Owner(req[q]) /\ req'[q].run = req[q].run
    BY <1>0, <1>1 DEF OwnersInv
<1>2. ASSUME NEW q \in Requests, Begins(q) PROVE OwnersInv'
    <2>1. \A p \in Requests : req[p].run <= used.runs /\ req[p].run \in Nat /\ used.runs \in Nat
        BY <1>0, FieldsTyped DEF RunsInv
    <2>2. /\ req'[q].run = used.runs + 1
          /\ \A p \in Requests : p # q => req'[p] = req[p] /\ req[p].run # used.runs + 1
        BY <1>2, <2>1 DEF Begins, Alone
    <2> QED BY <1>0, <2>2 DEF OwnersInv
<1>3. ASSUME NEW q \in Requests, Waits(q) \/ Works(q) \/ Quits(q)
      PROVE  \A p \in Requests : Owner(req'[p]) => Owner(req[p]) /\ req'[p].run = req[p].run
    BY <1>3 DEF Waits, Works, Quits, Alone, SameRun, Owner, Owning, Early, Working
<1>4. ASSUME Stops \/ Fades
      PROVE  \A p \in Requests : Owner(req'[p]) => Owner(req[p]) /\ req'[p].run = req[p].run
    BY <1>4 DEF Stops, Fades, SameRun, Owner, Owning, Working
<1> QED BY <1>1, <1>2, <1>3, <1>4 DEF Way


\* The stream of a run that works is as long as the owner says.
LEMMA OwnStream ==
    ASSUME RequestsInv, NEW q \in Requests, req[q].pc \in Working
    PROVE  /\ Owner(req[q]) /\ req[q].run \in Runs /\ Len(stream[req[q].run]) = req[q].id
           /\ \A p \in Requests : p # q /\ Owner(req[p]) => req[p].run # req[q].run
<1>1. Owner(req[q])
    BY DEF Owner, Owning
<1>2. req[q].run > 0
    BY DEF RequestsInv, Formed, Owning
<1>3. req[q].run \in Runs
    BY <1>2, GivenRuns DEF RequestsInv
<1>4. Len(stream[req[q].run]) = req[q].id
    BY <1>1, <1>3 DEF RequestsInv, StreamsInv
<1>5. \A p \in Requests : p # q /\ Owner(req[p]) => req[p].run # req[q].run
    BY <1>1 DEF RequestsInv, OwnersInv
<1> QED BY <1>1, <1>3, <1>4, <1>5

\* A stream that grows begins with what it had, and its numbers go on.
LEMMA TellsGrows ==
    ASSUME RequestsInv, Typed', NEW q \in Requests, req[q].pc \in Working,
           NEW kinds, Tells(q, kinds)
    PROVE  LET s == stream[req[q].run]
               t == stream'[req[q].run]
           IN /\ s \in Seq(Records) /\ t \in Seq(Records)
              /\ Len(s) \in Nat /\ Len(t) \in Nat /\ Len(t) = req'[q].id /\ Len(s) <= Len(t)
              /\ DOMAIN s = 1..Len(s) /\ DOMAIN t = 1..Len(t)
              /\ \A k \in 1..Len(s) : t[k] = s[k]
              /\ \A k \in 1..Len(t) : k > Len(s) => t[k].id = k /\ t[k].kind \in kinds
              /\ \A run \in Runs \ {req[q].run} : stream'[run] = stream[run]
<1>1. req[q].run \in Runs /\ Len(stream[req[q].run]) = req[q].id
    BY OwnStream
<1>2. PICK s, t : s = stream[req[q].run] /\ t = stream'[req[q].run]
    OBVIOUS
<1>3. PICK n \in Nat :
        /\ req'[q].id = req[q].id + n
        /\ \A run \in Runs \ {req[q].run} : stream'[run] = stream[run]
        /\ Len(t) = Len(s) + n
        /\ \A k \in 1..Len(s) : t[k] = s[k]
        /\ \A k \in 1..n : t[Len(s) + k].id = req[q].id + k /\ t[Len(s) + k].kind \in kinds
    BY <1>2 DEF Tells
<1>4. s \in Seq(Records) /\ t \in Seq(Records)
    BY <1>1, <1>2 DEF RequestsInv, Typed
<1>5. Len(s) \in Nat /\ Len(t) \in Nat /\ DOMAIN s = 1..Len(s) /\ DOMAIN t = 1..Len(t)
    BY <1>4, LenProperties
<1>6. ASSUME NEW k \in 1..Len(t), k > Len(s)
      PROVE  t[k].id = k /\ t[k].kind \in kinds
    <2>1. PICK j : j = k - Len(s)
        OBVIOUS
    <2>2. j \in 1..n /\ k = Len(s) + j
        BY <1>3, <1>5, <1>6, <2>1
    <2> QED BY <1>1, <1>2, <1>3, <2>2
<1> QED BY <1>1, <1>2, <1>3, <1>4, <1>5, <1>6

LEMMA StreamsKept ==
    ASSUME RequestsInv, Typed', Way
    PROVE  StreamsInv'
<1>0. Typed /\ RunsInv /\ OwnersInv /\ StreamsInv
    BY DEF RequestsInv
<1>1. /\ \A run \in Runs : \A k \in DOMAIN stream[run] : stream[run][k].id = k
      /\ \A q \in Requests : Owner(req[q]) /\ req[q].run \in Runs =>
           \/ Len(stream[req[q].run]) = req[q].id
           \/ stream[req[q].run] = <<>> /\ req[q].pc \notin Working
    BY <1>0 DEF StreamsInv
<1>2. ASSUME NEW q \in Requests, Waits(q) PROVE StreamsInv'
    <2>1. ~Owner(req'[q]) /\ stream' = stream /\ Alone(q)
        BY <1>2 DEF Waits, Owner, Owning, Early, Working
    <2>2. \A p \in Requests : Owner(req'[p]) => req'[p] = req[p]
        BY <2>1 DEF Alone
    <2> QED BY <1>1, <2>1, <2>2 DEF StreamsInv
<1>3. ASSUME NEW q \in Requests, Begins(q) PROVE StreamsInv'
    <2>1. stream' = stream /\ req'[q].id = 0 /\ req'[q].run = used.runs + 1 /\ Alone(q)
        BY <1>3 DEF Begins
    <2>2. used.runs + 1 \in Runs => stream[used.runs + 1] = <<>>
        BY <1>0, FieldsTyped DEF RunsInv
    <2> QED BY <1>1, <2>1, <2>2 DEF StreamsInv, Alone
<1>4. ASSUME NEW q \in Requests, Quits(q) PROVE StreamsInv'
    <2>1. /\ stream' = stream /\ Owner(req[q]) /\ req[q].pc \notin Working /\ req'[q].pc \notin Working
          /\ req'[q].id = req[q].id /\ req'[q].run = req[q].run /\ Alone(q)
        BY <1>4 DEF Quits, SameRun, Owner, Owning, Working
    <2> QED BY <1>1, <2>1 DEF StreamsInv, Alone
<1>5. CASE Stops
    <2>1. /\ stream' = stream
          /\ \A q \in Requests :
               \/ req'[q] = req[q]
               \/ /\ req'[q].id = req[q].id /\ req'[q].run = req[q].run /\ req'[q].pc \notin Working
                  /\ Owner(req'[q]) => Owner(req[q])
        BY <1>5 DEF Stops, SameRun, Owner, Owning, Working
    <2> QED BY <1>1, <2>1 DEF StreamsInv
<1>6. CASE Fades
    <2>1. /\ req' = req
          /\ \A run \in Runs :
               \/ stream'[run] = stream[run]
               \/ stream'[run] = <<>> /\ \A q \in Requests : req[q].run = run => req[q].pc \notin Working
        BY <1>6 DEF Fades
    <2>2. \A run \in Runs : \A k \in DOMAIN stream'[run] : stream'[run][k].id = k
        BY <1>1, <2>1
    <2> QED BY <1>1, <2>1, <2>2 DEF StreamsInv
<1>7. ASSUME NEW q \in Requests, Works(q) PROVE StreamsInv'
    <2>1. /\ req[q].pc \in Working /\ Alone(q) /\ req'[q].run = req[q].run
          /\ \/ stream' = stream /\ req'[q].id = req[q].id
             \/ \E kinds : Tells(q, kinds)
        BY <1>7 DEF Works, SameRun
    <2>2. /\ Owner(req[q]) /\ req[q].run \in Runs /\ Len(stream[req[q].run]) = req[q].id
          /\ \A p \in Requests : p # q /\ Owner(req[p]) => req[p].run # req[q].run
        BY <2>1, OwnStream
    <2>3. CASE stream' = stream /\ req'[q].id = req[q].id
        BY <1>1, <2>1, <2>2, <2>3 DEF StreamsInv, Alone
    <2>4. ASSUME NEW kinds, Tells(q, kinds) PROVE StreamsInv'
        <3>1. PICK s, t : s = stream[req[q].run] /\ t = stream'[req[q].run]
            OBVIOUS
        <3>2. /\ Len(s) \in Nat /\ Len(t) \in Nat /\ Len(t) = req'[q].id
              /\ DOMAIN s = 1..Len(s) /\ DOMAIN t = 1..Len(t)
              /\ \A k \in 1..Len(s) : t[k] = s[k]
              /\ \A k \in 1..Len(t) : k > Len(s) => t[k].id = k
              /\ \A run \in Runs \ {req[q].run} : stream'[run] = stream[run]
            BY <2>1, <2>4, <3>1, TellsGrows
        <3>3. \A k \in DOMAIN t : t[k].id = k
            BY <1>1, <2>2, <3>1, <3>2
        <3>4. \A run \in Runs : \A k \in DOMAIN stream'[run] : stream'[run][k].id = k
            BY <1>1, <3>1, <3>2, <3>3
        <3>5. ASSUME NEW p \in Requests, Owner(req'[p]), req'[p].run \in Runs
              PROVE  \/ Len(stream'[req'[p].run]) = req'[p].id
                     \/ stream'[req'[p].run] = <<>> /\ req'[p].pc \notin Working
            <4>1. CASE p = q
                BY <2>1, <3>1, <3>2, <4>1
            <4>2. CASE p # q
                BY <1>1, <2>1, <2>2, <3>2, <3>5, <4>2 DEF Alone
            <4> QED BY <4>1, <4>2
        <3> QED BY <3>4, <3>5 DEF StreamsInv
    <2> QED BY <2>1, <2>3, <2>4
<1> QED BY <1>2, <1>3, <1>4, <1>5, <1>6, <1>7 DEF Way


\* No record of a run that has not been given out.
LEMMA FreshRun ==
    ASSUME RequestsInv
    PROVE  /\ used.runs \in Nat
           /\ \A run \in Runs : \A i \in DOMAIN stream[run] : run # used.runs + 1
           /\ \A q \in Requests : req[q].run # used.runs + 1
           /\ \A r \in rows : r.st.run # used.runs + 1
           /\ \A a \in active : a.run # used.runs + 1
           /\ used.runs + 1 \notin written
<1>1. Typed /\ RunsInv
    BY DEF RequestsInv
<1>2. used.runs \in Nat
    BY <1>1, FieldsTyped
<1>3. \A run \in Runs : \A i \in DOMAIN stream[run] : run # used.runs + 1
    BY <1>1, <1>2 DEF RunsInv
<1>4. \A q \in Requests : req[q].run # used.runs + 1
    BY <1>1, FieldsTyped DEF RunsInv
<1>5. /\ \A r \in rows : r.st.run # used.runs + 1
      /\ \A a \in active : a.run # used.runs + 1
      /\ used.runs + 1 \notin written
    BY <1>1, FieldsTyped DEF RunsInv
<1> QED BY <1>2, <1>3, <1>4, <1>5

\* What a step of a run does to the rows: nothing, or one row for all of the run's.
LEMMA WorksRows ==
    ASSUME NEW q \in Requests, Works(q)
    PROVE  \A r \in rows' : r \in rows \/ r.st.run = req[q].run \/ r.st.run = 0
BY DEF Works, Saves

LEMMA FinalKept ==
    ASSUME RequestsInv, Typed', Way
    PROVE  FinalInv'
<1>0. \A run \in Runs : \A i \in DOMAIN stream[run] :
        stream[run][i].kind = "final" =>
          /\ i = Len(stream[run])
          /\ \A r \in rows : r.st.run # run
          /\ \A q \in Requests : req[q].run = run => req[q].pc \notin Working
    BY DEF RequestsInv, FinalInv
<1>1. /\ \A run \in Runs : \A i \in DOMAIN stream[run] : run # used.runs + 1
      /\ \A run \in Runs : run # 0
    BY FreshRun, SpentCounts
<1>2. ASSUME NEW q \in Requests, Waits(q) PROVE FinalInv'
    <2>1. /\ stream' = stream /\ Alone(q) /\ req'[q].pc \notin Working
          /\ \A r \in rows' : r \in rows \/ r.st.run = used.runs + 1
        BY <1>2 DEF Waits, Early, Working
    <2> QED BY <1>0, <1>1, <2>1 DEF FinalInv, Alone
<1>3. ASSUME NEW q \in Requests, Begins(q) PROVE FinalInv'
    <2>1. stream' = stream /\ Alone(q) /\ req'[q].run = used.runs + 1 /\ rows' = rows
        BY <1>3 DEF Begins
    <2> QED BY <1>0, <1>1, <2>1 DEF FinalInv, Alone
<1>4. ASSUME NEW q \in Requests, Quits(q) PROVE FinalInv'
    <2>1. stream' = stream /\ Alone(q) /\ req'[q].pc \notin Working /\ rows' = rows
        BY <1>4 DEF Quits, Working
    <2> QED BY <1>0, <2>1 DEF FinalInv, Alone
<1>5. CASE Stops
    <2>1. /\ stream' = stream /\ rows' = rows
          /\ \A q \in Requests : req'[q] = req[q] \/ req'[q].pc \notin Working
        BY <1>5 DEF Stops, Working
    <2> QED BY <1>0, <2>1 DEF FinalInv
<1>6. CASE Fades
    <2>1. /\ req' = req /\ rows' = rows
          /\ \A run \in Runs : stream'[run] = stream[run] \/ stream'[run] = <<>>
        BY <1>6 DEF Fades
    <2> QED BY <1>0, <2>1 DEF FinalInv
<1>7. ASSUME NEW q \in Requests, Works(q) PROVE FinalInv'
    <2>1. /\ req[q].pc \in Working /\ Alone(q) /\ req'[q].run = req[q].run
        BY <1>7 DEF Works, SameRun
    <2>2. /\ req[q].run \in Runs /\ Len(stream[req[q].run]) = req[q].id
          /\ \A p \in Requests : p # q /\ Owner(req[p]) => req[p].run # req[q].run
        BY <2>1, OwnStream
    <2>3. \A i \in DOMAIN stream[req[q].run] : stream[req[q].run][i].kind # "final"
        BY <1>0, <2>1, <2>2
    <2>4. ASSUME NEW run \in Runs, run # req[q].run, stream'[run] = stream[run],
                 NEW i \in DOMAIN stream'[run], stream'[run][i].kind = "final"
          PROVE  /\ i = Len(stream'[run])
                 /\ \A r \in rows' : r.st.run # run
                 /\ \A p \in Requests : req'[p].run = run => req'[p].pc \notin Working
        <3>1. /\ i = Len(stream[run])
              /\ \A r \in rows : r.st.run # run
              /\ \A p \in Requests : req[p].run = run => req[p].pc \notin Working
            BY <1>0, <2>4
        <3>2. \A r \in rows' : r \in rows \/ r.st.run = req[q].run \/ r.st.run = 0
            BY <1>7, WorksRows
        <3> QED BY <1>1, <2>1, <2>4, <3>1, <3>2 DEF Alone
    <2>5. CASE stream' = stream
        BY <2>3, <2>4, <2>5 DEF FinalInv
    <2>6. ASSUME NEW kinds, Tells(q, kinds), "final" \notin kinds PROVE FinalInv'
        <3>1. /\ \A run \in Runs \ {req[q].run} : stream'[run] = stream[run]
              /\ \A i \in DOMAIN stream'[req[q].run] : stream'[req[q].run][i].kind # "final"
            <4>1. PICK s, t : s = stream[req[q].run] /\ t = stream'[req[q].run]
                OBVIOUS
            <4>2. /\ Len(s) \in Nat /\ Len(t) \in Nat
                  /\ DOMAIN s = 1..Len(s) /\ DOMAIN t = 1..Len(t)
                  /\ \A k \in 1..Len(s) : t[k] = s[k]
                  /\ \A k \in 1..Len(t) : k > Len(s) => t[k].kind \in kinds
                  /\ \A run \in Runs \ {req[q].run} : stream'[run] = stream[run]
                BY <2>1, <2>6, <4>1, TellsGrows
            <4> QED BY <2>3, <2>6, <4>1, <4>2
        <3> QED BY <2>4, <3>1 DEF FinalInv
    <2>7. CASE /\ req[q].pc = "tell" /\ req'[q].pc = "drop" /\ req'[q].id = req[q].id + 1
               /\ Tells(q, {"final"}) /\ rows' = rows
        <3>1. PICK s, t : s = stream[req[q].run] /\ t = stream'[req[q].run]
            OBVIOUS
        <3>2. /\ Len(s) \in Nat /\ Len(t) \in Nat /\ Len(t) = req'[q].id
              /\ DOMAIN s = 1..Len(s) /\ DOMAIN t = 1..Len(t)
              /\ \A k \in 1..Len(s) : t[k] = s[k]
              /\ \A run \in Runs \ {req[q].run} : stream'[run] = stream[run]
            BY <2>1, <2>7, <3>1, TellsGrows
        <3>3. \A i \in DOMAIN t : t[i].kind = "final" => i = Len(t)
            BY <2>2, <2>3, <2>7, <3>1, <3>2, SMTT(30)
        <3>4. \A r \in rows' : r.st.run # req[q].run
            BY <2>1, <2>7 DEF RequestsInv, RowsInv
        <3>5. \A p \in Requests : req'[p].run = req[q].run => req'[p].pc \notin Working
            BY <2>1, <2>2, <2>7 DEF Alone, Owner, Owning, Working
        <3> QED BY <2>4, <3>1, <3>2, <3>3, <3>4, <3>5 DEF FinalInv
    <2> QED BY <1>7, <2>5, <2>6, <2>7 DEF Works, Kinds
<1> QED BY <1>2, <1>3, <1>4, <1>5, <1>6, <1>7 DEF Way

LEMMA RowsKept ==
    ASSUME RequestsInv, Typed', Way
    PROVE  RowsInv'
<1>0. \A q \in Requests : \A r \in rows :
        req[q].pc \in Working /\ r.st.run = req[q].run =>
          r.ver = req[q].ver /\ req[q].pc # "tell"
    BY DEF RequestsInv, RowsInv
<1>1. /\ \A q \in Requests : req[q].run # used.runs + 1
      /\ \A r \in rows : r.st.run # used.runs + 1
    BY FreshRun
<1>2. ASSUME NEW q \in Requests, Waits(q) PROVE RowsInv'
    <2>1. /\ Alone(q) /\ req'[q].pc \notin Working
          /\ \A r \in rows' : r \in rows \/ r.st.run = used.runs + 1
        BY <1>2 DEF Waits, Early, Working
    <2> QED BY <1>0, <1>1, <2>1 DEF RowsInv, Alone
<1>3. ASSUME NEW q \in Requests, Begins(q) PROVE RowsInv'
    <2>1. Alone(q) /\ req'[q].run = used.runs + 1 /\ rows' = rows
        BY <1>3 DEF Begins
    <2> QED BY <1>0, <1>1, <2>1 DEF RowsInv, Alone
<1>4. ASSUME NEW q \in Requests, Quits(q) PROVE RowsInv'
    <2>1. Alone(q) /\ req'[q].pc \notin Working /\ rows' = rows
        BY <1>4 DEF Quits, Working
    <2> QED BY <1>0, <2>1 DEF RowsInv, Alone
<1>5. CASE Stops \/ Fades
    <2>1. rows' = rows /\ \A q \in Requests : req'[q] = req[q] \/ req'[q].pc \notin Working
        BY <1>5 DEF Stops, Fades, Working
    <2> QED BY <1>0, <2>1 DEF RowsInv
<1>6. ASSUME NEW q \in Requests, Works(q) PROVE RowsInv'
    <2>1. /\ req[q].pc \in Working /\ Alone(q) /\ req'[q].run = req[q].run
        BY <1>6 DEF Works, SameRun
    <2>2. /\ req[q].run # 0
          /\ \A p \in Requests : p # q /\ req[p].pc \in Working => req[p].run # req[q].run /\ req[p].run # 0
        <3>1. \A p \in Requests : req[p].pc \in Working => req[p].run \in Runs
            BY OwnStream
        <3>2. \A p \in Requests : p # q /\ req[p].pc \in Working => req[p].run # req[q].run
            BY <2>1, OwnStream
        <3> QED BY <2>1, <3>1, <3>2, SpentCounts
    <2>3. CASE /\ rows' = rows /\ (req'[q].ver = req[q].ver \/ req'[q].pc = "ended")
               /\ req'[q].pc = "tell" => req[q].pc = "tell"
        <3>1. "ended" \notin Working
            BY DEF Working
        <3> QED BY <1>0, <2>1, <2>3, <3>1 DEF RowsInv, Alone
    <2>4. ASSUME NEW run \in {0, req[q].run}, Saves(q, run), run = 0 \/ req'[q].pc # "tell"
          PROVE  RowsInv'
        <3>1. PICK new \in rows' :
                /\ \A r \in rows' : r = new \/ (r \in rows /\ r.ver # req[q].ver)
                /\ new.st.run = run /\ (req'[q].pc # "ended" => new.ver = req'[q].ver)
            BY <2>4 DEF Saves
        <3>2. ASSUME NEW r \in rows', req'[q].pc \in Working, r.st.run = req'[q].run
              PROVE  r.ver = req'[q].ver /\ req'[q].pc # "tell"
            <4>1. r = new
                BY <1>0, <2>1, <3>1, <3>2
            <4> QED BY <2>1, <2>2, <2>4, <3>1, <3>2, <4>1 DEF Working
        <3>3. ASSUME NEW p \in Requests, p # q, NEW r \in rows', req'[p].pc \in Working, r.st.run = req'[p].run
              PROVE  r.ver = req'[p].ver /\ req'[p].pc # "tell"
            <4>1. req'[p] = req[p] /\ req[p].run # req[q].run /\ req[p].run # 0
                BY <2>1, <2>2, <3>3 DEF Alone
            <4> QED BY <1>0, <2>4, <3>1, <3>3, <4>1
        <3> QED BY <3>2, <3>3 DEF RowsInv
    <2> QED BY <1>6, <2>3, <2>4 DEF Works
<1> QED BY <1>2, <1>3, <1>4, <1>5, <1>6 DEF Way


\* The messages in the history stay there.
LEMMA HistoryGrows ==
    ASSUME Way
    PROVE  ToSet(history) \subseteq ToSet(history')
BY DEF Way, Waits, Begins, Works, Quits, Stops, Fades

\* What is settled stays settled.
LEMMA SettledStays ==
    ASSUME RequestsInv, Way
    PROVE  \A run, m : Settled(run, m, history, req) => Settled(run, m, history', req')
<1>1. ToSet(history) \subseteq ToSet(history')
    BY HistoryGrows
<1>2. \A q \in Requests : req[q].late => req'[q].late /\ req'[q].run = req[q].run
    <2>1. \A q \in Requests : req[q].pc \in Early \cup {"follow"} => ~req[q].late
        BY DEF RequestsInv, Formed
    <2>2. ASSUME NEW q \in Requests, Waits(q) \/ Begins(q) \/ Works(q) \/ Quits(q)
          PROVE  /\ \A p \in Requests : p # q => req'[p] = req[p]
                 /\ req[q].late => req'[q].late /\ req'[q].run = req[q].run
        <3>1. CASE Waits(q)
            BY <2>1, <3>1 DEF Waits, Alone
        <3>2. CASE Begins(q)
            BY <2>1, <3>2 DEF Begins, Alone, Early
        <3>3. CASE Works(q)
            BY <3>3 DEF Works, Alone, SameRun
        <3>4. CASE Quits(q)
            BY <3>4 DEF Quits, Alone, SameRun
        <3> QED BY <2>2, <3>1, <3>2, <3>3, <3>4
    <2>3. CASE Stops
        BY <2>3 DEF Stops, SameRun
    <2>4. CASE Fades
        BY <2>4 DEF Fades
    <2> QED BY <2>2, <2>3, <2>4 DEF Way
<1>3. \A m : Has(m, history) => Has(m, history')
    BY <1>1 DEF Has
<1>4. \A run : LateIn(run, req) => LateIn(run, req')
    BY <1>2 DEF LateIn
<1> QED BY <1>3, <1>4 DEF Settled

\* What a step of a run says to those who come to the run by its message.
LEMMA WorksAnswers ==
    ASSUME RequestsInv, Typed', NEW q \in Requests, Works(q)
    PROVE  /\ \A m : \A run \in Runs : run # req[q].run /\ Answered(run, m, stream, history, req) => Answered(run, m, stream', history', req')
           /\ req[q].msg # Page => Answered(req[q].run, req[q].msg, stream', history', req')
<1>0. Way
    BY DEF Way
<1>1. req[q].pc \in Working
    BY DEF Works
<1>2. /\ req[q].run \in Runs
      /\ \A i \in DOMAIN stream[req[q].run] : stream[req[q].run][i].kind # "final"
    <2>1. req[q].run \in Runs
        BY <1>1, OwnStream
    <2> QED BY <1>1, <2>1 DEF RequestsInv, FinalInv
<1>3. \A run \in Runs : run # req[q].run => stream'[run] = stream[run]
    BY DEF Works, Tells
<1>4. \A m : \A run \in Runs : run # req[q].run /\ Answered(run, m, stream, history, req) => Answered(run, m, stream', history', req')
    BY <1>0, <1>3, SettledStays DEF Answered
<1>5. CASE req[q].msg # Page => Settled(req[q].run, req[q].msg, history, req)
    BY <1>0, <1>4, <1>5, SettledStays DEF Answered
<1>6. CASE req[q].pc # "tell"
    <2>1. \A i \in DOMAIN stream'[req[q].run] : stream'[req[q].run][i].kind # "final"
        <3>1. CASE stream' = stream
            BY <1>2, <3>1
        <3>2. CASE Tells(q, Kinds \ {"final"})
            <4>1. PICK s, t : s = stream[req[q].run] /\ t = stream'[req[q].run]
                OBVIOUS
            <4>2. /\ Len(s) \in Nat /\ Len(t) \in Nat
                  /\ DOMAIN s = 1..Len(s) /\ DOMAIN t = 1..Len(t)
                  /\ \A k \in 1..Len(s) : t[k] = s[k]
                  /\ \A k \in 1..Len(t) : k > Len(s) => t[k].kind \in Kinds \ {"final"}
                BY <1>1, <3>2, <4>1, TellsGrows
            <4> QED BY <1>2, <4>1, <4>2
        <3> QED BY <1>6, <3>1, <3>2 DEF Works
    <2> QED BY <1>4, <2>1 DEF Answered
<1> QED BY <1>5, <1>6 DEF RequestsInv, AnswersInv, Closing

\* Whoever comes to a run by a message comes to the run of that message.
OfMessage ==
    \A q \in Requests : Owner(req[q]) =>
        /\ \A a \in active : a.run = req[q].run => a.msg = req[q].msg
        /\ \A p \in Requests : Follows(req[p]) /\ req[p].run = req[q].run => req[p].msg = req[q].msg

LEMMA OfMessageKept ==
    ASSUME RequestsInv, Typed', Way
    PROVE  OfMessage'
<1>0. OfMessage
    BY DEF RequestsInv, AnswersInv, OfMessage
<1>1. /\ \A q \in Requests : req[q].run # used.runs + 1
      /\ \A a \in active : a.run # used.runs + 1
    BY FreshRun
<1>2. ASSUME NEW q \in Requests, Waits(q) PROVE OfMessage'
    <2>1. /\ Alone(q) /\ active' = active /\ ~Owner(req'[q])
          /\ Follows(req'[q]) => \/ Follows(req[q]) /\ req'[q].run = req[q].run /\ req'[q].msg = req[q].msg
                                 \/ [run |-> req'[q].run, msg |-> req'[q].msg] \in active
        BY <1>2 DEF Waits, SameRun, Owner, Owning, Early, Working
    <2>2. \A p \in Requests : Owner(req'[p]) => p # q /\ req'[p] = req[p]
        BY <2>1 DEF Alone
    <2>3. \A p, r \in Requests : Owner(req'[p]) /\ Follows(req'[r]) /\ req'[r].run = req'[p].run
                                   => req'[r].msg = req'[p].msg
        <3> SUFFICES ASSUME NEW p \in Requests, NEW r \in Requests,
                            Owner(req'[p]), Follows(req'[r]), req'[r].run = req'[p].run
                     PROVE  req'[r].msg = req'[p].msg
            OBVIOUS
        <3>1. CASE r # q
            BY <1>0, <2>1, <2>2, <3>1 DEF OfMessage, Alone
        <3>2. CASE r = q
            BY <1>0, <2>1, <2>2, <3>2 DEF OfMessage
        <3> QED BY <3>1, <3>2
    <2> QED BY <1>0, <2>1, <2>2, <2>3 DEF OfMessage
<1>3. ASSUME NEW q \in Requests, Begins(q) PROVE OfMessage'
    <2>1. /\ Alone(q) /\ req'[q].run = used.runs + 1 /\ req'[q].msg = req[q].msg
          /\ \A a \in active' : a \in active \/ (a.run = used.runs + 1 /\ a.msg = req[q].msg)
          /\ ~Follows(req'[q])
        BY <1>3 DEF Begins, Follows
    <2>2. \A p \in Requests : p # q => req'[p] = req[p] /\ req'[p].run # used.runs + 1
        BY <1>1, <2>1 DEF Alone
    <2> QED BY <1>0, <1>1, <2>1, <2>2 DEF OfMessage
<1>4. ASSUME NEW q \in Requests, Works(q) \/ Quits(q) PROVE OfMessage'
    <2>1. /\ Alone(q) /\ active' \subseteq active /\ Owner(req[q]) /\ ~Follows(req'[q])
          /\ req'[q].run = req[q].run /\ req'[q].msg = req[q].msg
        BY <1>4 DEF Works, Quits, SameRun, Owner, Owning, Follows, Working
    <2> QED BY <1>0, <2>1 DEF OfMessage, Alone
<1>5. CASE Stops
    <2>1. /\ active' = active
          /\ \A q \in Requests :
               \/ req'[q] = req[q]
               \/ /\ req'[q].run = req[q].run /\ req'[q].msg = req[q].msg /\ ~Follows(req'[q])
                  /\ Owner(req'[q]) => Owner(req[q])
        BY <1>5 DEF Stops, SameRun, Owner, Owning, Follows, Working
    <2> QED BY <1>0, <2>1 DEF OfMessage
<1>6. CASE Fades
    BY <1>0, <1>6 DEF OfMessage, Fades
<1> QED BY <1>2, <1>3, <1>4, <1>5, <1>6 DEF Way

LEMMA AnswersKept ==
    ASSUME RequestsInv, Typed', Way
    PROVE  AnswersInv'
<1>0. /\ \A q \in Requests :
           /\ req[q].pc \in Working \ Closing => req[q].run \notin written
           /\ req[q].pc \in Closing /\ req[q].msg # Page => Settled(req[q].run, req[q].msg, history, req)
      /\ \A a \in active : a.run \in Runs => Answered(a.run, a.msg, stream, history, req)
      /\ \A q \in Requests :
           Follows(req[q]) /\ req[q].run \in Runs => Answered(req[q].run, req[q].msg, stream, history, req)
      /\ OfMessage
    BY DEF RequestsInv, AnswersInv, OfMessage
<1>1. /\ \A run \in Runs : \A i \in DOMAIN stream[run] : run # used.runs + 1
      /\ used.runs + 1 \notin written
    BY FreshRun
<1>2. \A run, m : Settled(run, m, history, req) => Settled(run, m, history', req')
    BY SettledStays
<1>3. SUFFICES
        /\ \A q \in Requests :
             /\ req'[q].pc \in Working \ Closing => req'[q].run \notin written'
             /\ req'[q].pc \in Closing /\ req'[q].msg # Page => Settled(req'[q].run, req'[q].msg, history', req')
        /\ \A a \in active' : a.run \in Runs => Answered(a.run, a.msg, stream', history', req')
        /\ \A q \in Requests :
             Follows(req'[q]) /\ req'[q].run \in Runs => Answered(req'[q].run, req'[q].msg, stream', history', req')
    BY OfMessageKept DEF AnswersInv, OfMessage, Answered
<1>4. ASSUME stream' = stream
      PROVE  \A m : \A run \in Runs : Answered(run, m, stream, history, req) => Answered(run, m, stream', history', req')
    BY <1>2, <1>4 DEF Answered
<1>5. CASE \E q \in Requests : Waits(q)
    <2>1. PICK q \in Requests : Waits(q)
        BY <1>5
    <2>2. /\ Alone(q) /\ UNCHANGED <<history, written, active, stream>>
          /\ req'[q].pc \notin Working /\ req'[q].pc \notin Closing
          /\ Follows(req'[q]) => \/ Follows(req[q]) /\ req'[q].run = req[q].run /\ req'[q].msg = req[q].msg
                                 \/ [run |-> req'[q].run, msg |-> req'[q].msg] \in active
        BY <2>1 DEF Waits, SameRun, Early, Working, Closing
    <2>3. Follows(req'[q]) /\ req'[q].run \in Runs => Answered(req'[q].run, req'[q].msg, stream, history, req)
        <3>1. PICK a : a = [run |-> req'[q].run, msg |-> req'[q].msg]
            OBVIOUS
        <3>2. a.run = req'[q].run /\ a.msg = req'[q].msg
            BY <3>1
        <3> QED BY <1>0, <2>2, <3>1, <3>2
    <2>4. \A p \in Requests : p # q => req'[p] = req[p]
        BY <2>2 DEF Alone
    <2> QED BY <1>0, <1>2, <1>4, <2>2, <2>3, <2>4
<1>6. CASE \E q \in Requests : Begins(q)
    <2>1. PICK q \in Requests : Begins(q)
        BY <1>6
    <2>2. /\ Alone(q) /\ UNCHANGED <<history, written, stream>>
          /\ req'[q].run = used.runs + 1 /\ req'[q].pc \notin Closing /\ ~Follows(req'[q])
          /\ \A a \in active' : a \in active \/ a.run = used.runs + 1
        BY <2>1 DEF Begins, Follows, Closing
    <2>3. \A a \in active' : a.run \in Runs => Answered(a.run, a.msg, stream, history, req)
        BY <1>0, <1>1, <2>2 DEF Answered
    <2>4. \A p \in Requests : p # q => req'[p] = req[p]
        BY <2>2 DEF Alone
    <2> QED BY <1>0, <1>1, <1>2, <1>4, <2>2, <2>3, <2>4
<1>7. CASE \E q \in Requests : Quits(q)
    <2>1. PICK q \in Requests : Quits(q)
        BY <1>7
    <2>2. /\ Alone(q) /\ UNCHANGED <<history, written, stream>> /\ active' \subseteq active
          /\ req'[q].pc = "ended" /\ ~Follows(req'[q])
        BY <2>1 DEF Quits, Follows
    <2>3. \A p \in Requests : p # q => req'[p] = req[p]
        BY <2>2 DEF Alone
    <2> QED BY <1>0, <1>2, <1>4, <2>2, <2>3 DEF Working, Closing
<1>8. CASE Stops
    <2>1. /\ UNCHANGED <<history, written, active, stream>>
          /\ \A q \in Requests : req'[q] = req[q] \/ req'[q].pc = "ended"
        BY <1>8 DEF Stops
    <2> QED BY <1>0, <1>2, <1>4, <2>1 DEF Working, Closing, Follows
<1>9. CASE Fades
    <2>1. /\ UNCHANGED <<history, written, req>> /\ active' \subseteq active
          /\ \A run \in Runs : stream'[run] = stream[run] \/ stream'[run] = <<>>
        BY <1>9 DEF Fades
    <2>2. \A m : \A run \in Runs : Answered(run, m, stream, history, req) => Answered(run, m, stream', history', req')
        BY <2>1 DEF Answered
    <2> QED BY <1>0, <2>1, <2>2
<1>10. CASE \E q \in Requests : Works(q)
    <2>1. PICK q \in Requests : Works(q)
        BY <1>10
    <2>2. /\ Alone(q) /\ active' = active /\ req[q].pc \in Working /\ ~Follows(req'[q])
          /\ req'[q].run = req[q].run /\ req'[q].msg = req[q].msg
        BY <2>1 DEF Works, SameRun, Follows, Owning, Working
    <2>3. /\ Owner(req[q]) /\ req[q].run \in Runs
          /\ \A p \in Requests : p # q /\ Owner(req[p]) => req[p].run # req[q].run
        BY <2>2, OwnStream
    <2>4. /\ \A m : \A run \in Runs : run # req[q].run /\ Answered(run, m, stream, history, req) => Answered(run, m, stream', history', req')
          /\ req[q].msg # Page => Answered(req[q].run, req[q].msg, stream', history', req')
        BY <2>1, WorksAnswers
    <2>5. \A p \in Requests : p # q => req'[p] = req[p]
        BY <2>2 DEF Alone
    <2>6. \A a \in active' : a.run \in Runs => Answered(a.run, a.msg, stream', history', req')
        <3> SUFFICES ASSUME NEW a \in active, a.run \in Runs PROVE Answered(a.run, a.msg, stream', history', req')
            BY <2>2
        <3>1. CASE a.run = req[q].run
            <4>1. a.msg = req[q].msg /\ a.msg # Page
                BY <1>0, <2>3, <3>1, RequestAssumption DEF OfMessage, RequestsInv, Typed
            <4> QED BY <2>4, <3>1, <4>1
        <3>2. CASE a.run # req[q].run
            BY <1>0, <2>4, <3>2
        <3> QED BY <3>1, <3>2
    <2>7. \A p \in Requests : Follows(req'[p]) /\ req'[p].run \in Runs => Answered(req'[p].run, req'[p].msg, stream', history', req')
        <3> SUFFICES ASSUME NEW p \in Requests, Follows(req'[p]), req'[p].run \in Runs
                     PROVE  Answered(req'[p].run, req'[p].msg, stream', history', req')
            OBVIOUS
        <3>0. req'[p] = req[p]
            BY <2>2, <2>5
        <3>1. CASE req[p].run = req[q].run
            <4>1. req[p].msg = req[q].msg /\ req[p].msg # Page
                BY <1>0, <2>3, <3>0, <3>1 DEF OfMessage, Follows
            <4> QED BY <2>4, <3>0, <3>1, <4>1
        <3>2. CASE req[p].run # req[q].run
            BY <1>0, <2>4, <3>0, <3>2
        <3> QED BY <3>1, <3>2
    <2>8. \A p \in Requests :
             /\ req'[p].pc \in Working \ Closing => req'[p].run \notin written'
             /\ req'[p].pc \in Closing /\ req'[p].msg # Page => Settled(req'[p].run, req'[p].msg, history', req')
        <3>1. written' \subseteq written \cup {req[q].run}
            BY <2>1 DEF Works
        <3>2. \A p \in Requests : p # q /\ req[p].pc \in Working => req[p].run # req[q].run
            BY <2>3 DEF Owner, Owning
        <3>3. /\ req'[q].pc \in Working \ Closing => req'[q].run \notin written'
              /\ req'[q].pc \in Closing /\ req'[q].msg # Page => Settled(req'[q].run, req'[q].msg, history', req')
            BY <1>0, <1>2, <2>1, <2>2 DEF Works, Closing, Working
        <3> QED BY <1>0, <1>2, <2>5, <3>1, <3>2, <3>3
    <2> QED BY <2>6, <2>7, <2>8
<1> QED BY <1>5, <1>6, <1>7, <1>8, <1>9, <1>10 DEF Way

LEMMA OkKept ==
    ASSUME RequestsInv, Typed', Way
    PROVE  OkInv'
<1>0. \A q \in Requests : req[q].result = "ok" =>
        /\ req[q].msg # Page => Settled(req[q].run, req[q].msg, history, req)
        /\ \A p \in Requests :
             Owner(req[p]) /\ req[p].run = req[q].run =>
               req[p].pc \notin Working /\ req[q].last + Len(req[q].heard) = req[p].id
    BY DEF RequestsInv, OkInv
<1>1. \A run, m : Settled(run, m, history, req) => Settled(run, m, history', req')
    BY SettledStays
<1>2. ASSUME NEW q \in Requests, Waits(q) PROVE OkInv'
    <2>1. /\ Alone(q) /\ ~Owner(req'[q])
          /\ req'[q].result = "ok" =>
               /\ req[q].pc = "follow" /\ req'[q].run = req[q].run
               /\ req'[q].msg = req[q].msg /\ req'[q].last = req[q].last
               /\ \E i \in DOMAIN stream[req[q].run] :
                    /\ stream[req[q].run][i].kind = "final"
                    /\ req'[q].last + Len(req'[q].heard) = i
        BY <1>2 DEF Waits, SameRun, Owner, Owning, Early, Working
    <2>2. \A p \in Requests : Owner(req'[p]) => p # q /\ req'[p] = req[p]
        BY <2>1 DEF Alone
    <2>3. ASSUME req'[q].result = "ok"
          PROVE  /\ req'[q].msg # Page => Settled(req'[q].run, req'[q].msg, history, req)
                 /\ \A p \in Requests :
                      Owner(req[p]) /\ req[p].run = req'[q].run =>
                        req[p].pc \notin Working /\ req'[q].last + Len(req'[q].heard) = req[p].id
        <3>1. req[q].run > 0 /\ req[q].run \in Runs
            BY <2>1, <2>3, GivenRuns DEF RequestsInv, Formed
        <3>2. PICK i \in DOMAIN stream[req[q].run] :
                    /\ stream[req[q].run][i].kind = "final"
                    /\ req'[q].last + Len(req'[q].heard) = i
            BY <2>1, <2>3
        <3>3. /\ i = Len(stream[req[q].run])
              /\ \A p \in Requests : req[p].run = req[q].run => req[p].pc \notin Working
            BY <3>1, <3>2 DEF RequestsInv, FinalInv
        <3>4. \A p \in Requests : Owner(req[p]) /\ req[p].run = req[q].run => req[p].id = i
            BY <3>1, <3>2, <3>3 DEF RequestsInv, StreamsInv
        <3>5. req[q].msg # Page => Settled(req[q].run, req[q].msg, history, req)
            <4> SUFFICES ASSUME req[q].msg # Page PROVE Settled(req[q].run, req[q].msg, history, req)
                OBVIOUS
            <4>1. Follows(req[q])
                BY <2>1, <2>3, <3>1 DEF Follows
            <4> QED BY <3>1, <3>2, <4>1 DEF RequestsInv, AnswersInv, Answered
        <3> QED BY <2>1, <2>3, <3>2, <3>3, <3>4, <3>5
    <2>4. \A p \in Requests : p # q => req'[p] = req[p]
        BY <2>1 DEF Alone
    <2> QED BY <1>0, <1>1, <2>2, <2>3, <2>4 DEF OkInv
<1>3. ASSUME NEW q \in Requests, Begins(q) PROVE OkInv'
    <2>1. Alone(q) /\ req'[q].result # "ok" /\ req'[q].run = used.runs + 1
        BY <1>3 DEF Begins
    <2>2. \A p \in Requests : p # q => req'[p] = req[p] /\ req[p].run # used.runs + 1
        BY <2>1, FreshRun DEF Alone
    <2> QED BY <1>0, <1>1, <2>1, <2>2 DEF OkInv
<1>4. ASSUME NEW q \in Requests, Works(q) PROVE OkInv'
    <2>1. Alone(q) /\ req'[q].result # "ok" /\ req[q].pc \in Working /\ req'[q].run = req[q].run /\ Owner(req[q])
        BY <1>4 DEF Works, SameRun, Owner, Owning
    <2>2. \A p \in Requests : req[p].result = "ok" => req[p].run # req[q].run
        BY <1>0, <2>1
    <2> QED BY <1>0, <1>1, <2>1, <2>2 DEF OkInv, Alone
<1>5. ASSUME NEW q \in Requests, Quits(q) PROVE OkInv'
    <2>1. /\ Alone(q) /\ req[q].pc = "drop" /\ req'[q].pc = "ended" /\ req'[q].id = req[q].id
          /\ req'[q].run = req[q].run /\ req'[q].msg = req[q].msg /\ req'[q].last = req[q].last
          /\ req'[q].heard = req[q].heard /\ Owner(req[q])
        BY <1>5 DEF Quits, SameRun, Owner, Owning
    <2>2. req[q].last + Len(req[q].heard) = req[q].id
        <3>1. Formed(req[q]) /\ req[q].heard \in Seq(Nat)
            BY FieldsTyped DEF RequestsInv
        <3> QED BY <2>1, <3>1 DEF Formed, Owning
    <2>3. req[q].msg # Page => Settled(req[q].run, req[q].msg, history, req)
        BY <2>1 DEF RequestsInv, AnswersInv, Closing
    <2>4. \A p \in Requests : p # q => req'[p] = req[p] /\ (Owner(req[p]) => req[p].run # req[q].run)
        BY <2>1 DEF Alone, RequestsInv, OwnersInv
    <2>5. "ended" \notin Working
        BY DEF Working
    <2>6. ASSUME NEW r \in Requests, req'[r].result = "ok",
                 NEW p \in Requests, Owner(req'[p]), req'[p].run = req'[r].run
          PROVE  req'[p].pc \notin Working /\ req'[r].last + Len(req'[r].heard) = req'[p].id
        BY <1>0, <2>1, <2>2, <2>4, <2>5, <2>6
    <2>7. ASSUME NEW r \in Requests, req'[r].result = "ok", req'[r].msg # Page
          PROVE  Settled(req'[r].run, req'[r].msg, history', req')
        BY <1>0, <1>1, <2>1, <2>3, <2>4, <2>7
    <2> QED BY <2>6, <2>7 DEF OkInv
<1>6. CASE Stops
    <2>1. \A q \in Requests :
            \/ req'[q] = req[q]
            \/ /\ req'[q].result # "ok" /\ req'[q].pc \notin Working
               /\ Owner(req'[q]) => Owner(req[q])
               /\ req'[q].run = req[q].run /\ req'[q].id = req[q].id
        BY <1>6 DEF Stops, SameRun, Owner, Owning, Working
    <2> QED BY <1>0, <1>1, <2>1 DEF OkInv
<1>7. CASE Fades
    BY <1>0, <1>1, <1>7 DEF OkInv, Fades
<1> QED BY <1>2, <1>3, <1>4, <1>5, <1>6, <1>7 DEF Way


\* A step that goes one of the ways keeps the whole invariant.
LEMMA WayKeeps ==
    ASSUME RequestsInv, Typed', Way, \A q \in Requests : Formed(req'[q])
    PROVE  RequestsInv'
BY RunsKept, OwnersKept, StreamsKept, FinalKept, RowsKept, AnswersKept, OkKept DEF RequestsInv

-----------------------------------------------------------------------------
(* What the steps are made of.                                              *)

\* What is read of a stream, from a number on.
LEMMA ReadsFrom ==
    ASSUME RequestsInv, NEW run \in Runs, NEW id \in Nat, id > 0
    PROVE  /\ From(run, id) \in Seq(Records)
           /\ DOMAIN From(run, id) = 1..Len(From(run, id)) /\ Len(From(run, id)) \in Nat
           /\ \A n \in DOMAIN From(run, id) :
                /\ id + n - 1 \in DOMAIN stream[run]
                /\ From(run, id)[n] = stream[run][id + n - 1]
                /\ From(run, id)[n].id = id + n - 1
<1> DEFINE upper == {k \in DOMAIN stream[run] : stream[run][k].id >= id}
           least == CHOOSE k \in upper : \A j \in upper : k <= j
<1>0. From(run, id) = IF upper = {} THEN <<>> ELSE SubSeq(stream[run], least, Len(stream[run]))
    BY Zenon DEF From
<1>3. PICK later : later = upper
    OBVIOUS
<1>4. PICK first : first = least /\ first = CHOOSE k \in later : \A j \in later : k <= j
    BY <1>3
<1> HIDE DEF upper, least
<1>1. PICK s, f : s = stream[run] /\ f = From(run, id)
    OBVIOUS
<1>2. /\ s \in Seq(Records) /\ \A k \in DOMAIN s : s[k].id = k
      /\ DOMAIN s = 1..Len(s) /\ Len(s) \in Nat
    BY <1>1, LenProperties DEF RequestsInv, Typed, StreamsInv
<1>8. later = {k \in DOMAIN s : s[k].id >= id}
    BY <1>1, <1>3 DEF upper
<1>7. f = IF later = {} THEN <<>> ELSE SubSeq(s, first, Len(s))
    BY <1>0, <1>1, <1>3, <1>4
<1>5. CASE later = {}
    <2>1. f = <<>> /\ f \in Seq(Records) /\ Len(f) = 0
        BY <1>7, <1>5, EmptySeq
    <2>2. DOMAIN f = 1..Len(f)
        BY <2>1, LenProperties
    <2> QED BY <1>1, <2>1, <2>2
<1>6. CASE later # {}
    <2>1. later = id..Len(s) /\ id \in later
        BY <1>2, <1>6, <1>8
    <2>2. \E k \in later : \A j \in later : k <= j
        BY <2>1
    <2>3. first \in later /\ \A j \in later : first <= j
        BY <1>4, <2>2
    <2>4. first = id
        BY <2>1, <2>3
    <2>5. f = SubSeq(s, id, Len(s)) /\ id <= Len(s)
        BY <1>2, <1>6, <1>7, <2>1, <2>4
    <2>6. \A k \in id..Len(s) : k \in DOMAIN s /\ s[k] \in Records
        BY <1>2, ElementOfSeq
    <2>7. /\ f \in Seq(Records) /\ Len(f) = Len(s) - id + 1
          /\ \A n \in 1..(Len(s) - id + 1) : f[n] = s[id + n - 1]
        BY <1>2, <2>5, <2>6, SubSeqProperties
    <2>8. DOMAIN f = 1..Len(f) /\ Len(f) \in Nat
        BY <2>7, LenProperties
    <2>9. \A n \in DOMAIN f : id + n - 1 \in DOMAIN s /\ f[n] = s[id + n - 1]
        <3> SUFFICES ASSUME NEW n \in DOMAIN f
                     PROVE  id + n - 1 \in DOMAIN s /\ f[n] = s[id + n - 1]
            OBVIOUS
        <3>1. n \in 1..(Len(s) - id + 1)
            BY <2>7, <2>8
        <3>2. id + n - 1 \in 1..Len(s)
            BY <1>2, <3>1
        <3> QED BY <1>2, <2>7, <3>1, <3>2
    <2> QED BY <1>1, <1>2, <2>7, <2>8, <2>9
<1> QED BY <1>5, <1>6

\* One request becomes another, and the others stay.
LEMMA BecomeOne ==
    ASSUME Typed, NEW q \in Requests, NEW r \in RequestSet, Become(q, r)
    PROVE  req'[q] = r /\ Alone(q) /\ req' \in [Requests -> RequestSet]
BY DEF Typed, Become, Alone

\* A request that ends keeps what tells its run.
LEMMA EndsTyped ==
    ASSUME Typed, NEW q \in Requests, NEW result \in Results
    PROVE  LET r == Ends(q, result)
           IN /\ r \in RequestSet
              /\ r.pc = "ended" /\ r.result = result /\ r.ver = 0 /\ r.st = Session /\ r.seen = <<>>
              /\ r.run = req[q].run /\ r.msg = req[q].msg /\ r.last = req[q].last
              /\ r.id = req[q].id /\ r.heard = req[q].heard /\ r.late = req[q].late
BY SessionTyped, EmptySeq, ZenonT(40) DEF Typed, Ends, RequestSet

LEMMA GoesTyped ==
    ASSUME Typed, NEW q \in Requests, NEW pc \in Early \cup {"follow", "ended"} \cup Owning
    PROVE  LET r == Goes(q, pc)
           IN /\ r \in RequestSet
              /\ r.pc = pc /\ r.result = req[q].result /\ r.ver = req[q].ver /\ r.st = req[q].st
              /\ r.seen = req[q].seen /\ r.run = req[q].run /\ r.msg = req[q].msg
              /\ r.last = req[q].last /\ r.id = req[q].id /\ r.heard = req[q].heard /\ r.late = req[q].late
BY DEF Typed, Goes, RequestSet

\* A request but for what it has said and its client has heard.
Told(r, next) == \E id \in Nat, heard \in Seq(Nat) : r = [next EXCEPT !.id = id, !.heard = heard]

\* A request says some records: they follow the ones of its stream, and the client
\* hears them.
LEMMA EmitTells ==
    ASSUME RequestsInv, NEW q \in Requests, req[q].pc \in Working,
           NEW set \in SUBSET Kinds, NEW kinds \in Seq(set), NEW next \in RequestSet,
           next.id = req[q].id, next.heard = req[q].heard, Emit(q, kinds, next)
    PROVE  /\ stream' \in [Runs -> Seq(Records)] /\ req' \in [Requests -> RequestSet]
           /\ Alone(q) /\ Tells(q, set)
           /\ req'[q].id = req[q].id + Len(kinds)
           /\ Len(req'[q].heard) = req'[q].id
           /\ \A k \in DOMAIN req'[q].heard : req'[q].heard[k] = k
           /\ Told(req'[q], next)
<1>0. Typed /\ Formed(req[q])
    BY DEF RequestsInv
<1>1. PICK id, heard, run, n :
        id = req[q].id /\ heard = req[q].heard /\ run = req[q].run /\ n = Len(kinds)
    OBVIOUS
<1>2. id \in Nat /\ heard \in Seq(Nat) /\ run \in Runs /\ n \in Nat /\ DOMAIN kinds = 1..n
    BY <1>0, <1>1, OwnStream, FieldsTyped, LenProperties
<1>3. /\ Len(heard) = id /\ \A k \in DOMAIN heard : heard[k] = k
      /\ DOMAIN heard = 1..id
    <2>1. req[q].last = 0 /\ Len(heard) = id
        BY <1>0, <1>1 DEF Formed, Owning
    <2> QED BY <1>0, <1>1, <1>2, <2>1, LenProperties DEF Formed
<1>4. PICK ids : ids = [k \in 1..n |-> id + k]
    OBVIOUS
<1>5. ids \in Seq(Nat) /\ Len(ids) = n /\ \A k \in 1..n : ids[k] = id + k
    <2>1. ids \in [1..n -> Nat]
        BY <1>2, <1>4
    <2> QED BY <1>2, <1>4, <2>1, SeqOfLength
<1>6. PICK more : more = [k \in 1..n |-> Record(ids[k], kinds[k])]
    OBVIOUS
<1>7. /\ more \in Seq(Records) /\ Len(more) = n
      /\ \A k \in 1..n : more[k].id = id + k /\ more[k].kind \in set
    <2>1. \A k \in 1..n : kinds[k] \in set
        BY <1>2, ElementOfSeq
    <2>2. \A k \in 1..n : Record(ids[k], kinds[k]) \in Records
                          /\ Record(ids[k], kinds[k]).id = id + k
                          /\ Record(ids[k], kinds[k]).kind = kinds[k]
        BY <1>2, <1>5, <2>1 DEF Record, Records
    <2>3. more \in [1..n -> Records]
        BY <1>6, <2>2
    <2> QED BY <1>2, <1>6, <2>1, <2>2, <2>3, SeqOfLength
<1>8. PICK s, t, all : s = stream[run] /\ t = s \o more /\ all = heard \o ids
    OBVIOUS
<1>9. s \in Seq(Records) /\ Len(s) = id
    BY <1>0, <1>1, <1>2, <1>8, OwnStream DEF Typed
<1>10. /\ t \in Seq(Records) /\ Len(t) = id + n
       /\ \A k \in 1..id : t[k] = s[k]
       /\ \A k \in 1..n : t[id + k] = more[k]
    <2>1. /\ t \in Seq(Records) /\ Len(t) = Len(s) + Len(more)
          /\ \A i \in 1..(Len(s) + Len(more)) : t[i] = IF i <= Len(s) THEN s[i] ELSE more[i - Len(s)]
        <3>1. /\ s \o more \in Seq(Records) /\ Len(s \o more) = Len(s) + Len(more)
              /\ \A i \in 1..(Len(s) + Len(more)) :
                   (s \o more)[i] = IF i <= Len(s) THEN s[i] ELSE more[i - Len(s)]
            BY <1>7, <1>9, ConcatProperties
        <3> QED BY <1>8, <3>1
    <2>2. ASSUME NEW k \in 1..n PROVE t[id + k] = more[k]
        <3>1. /\ id + k \in 1..(id + n) /\ ~(id + k <= id) /\ (id + k) - id = k
            BY <1>2
        <3> QED BY <1>7, <1>9, <2>1, <3>1
    <2>3. ASSUME NEW k \in 1..id PROVE t[k] = s[k]
        <3>1. k \in 1..(id + n) /\ k <= id
            BY <1>2
        <3> QED BY <1>7, <1>9, <2>1, <3>1
    <2> QED BY <1>7, <1>9, <2>1, <2>2, <2>3
<1>11. /\ all \in Seq(Nat) /\ Len(all) = id + n /\ DOMAIN all = 1..(id + n)
       /\ \A k \in 1..(id + n) : all[k] = k
    <2>0. /\ all \in Seq(Nat) /\ Len(all) = Len(heard) + Len(ids)
          /\ \A i \in 1..(Len(heard) + Len(ids)) :
               all[i] = IF i <= Len(heard) THEN heard[i] ELSE ids[i - Len(heard)]
        BY <1>2, <1>5, <1>8, ConcatProperties
    <2>1. all \in Seq(Nat) /\ Len(all) = id + n
        BY <1>3, <1>5, <2>0
    <2>2. ASSUME NEW k \in 1..(id + n) PROVE all[k] = k
        <3>1. CASE k <= id
            <4>1. k \in 1..id
                BY <1>2, <3>1
            <4> QED BY <1>3, <1>5, <2>0, <3>1, <4>1
        <3>2. CASE ~(k <= id)
            <4>1. k - id \in 1..n /\ id + (k - id) = k
                BY <1>2, <3>2
            <4> QED BY <1>3, <1>5, <2>0, <3>2, <4>1
        <3> QED BY <3>1, <3>2
    <2> QED BY <2>1, <2>2, LenProperties
<1>12. stream' = [stream EXCEPT ![run] = t] /\ Become(q, [next EXCEPT !.id = id + n, !.heard = all])
    BY <1>1, <1>2, <1>4, <1>6, <1>8 DEF Emit
<1>13. PICK r : r = [next EXCEPT !.id = id + n, !.heard = all]
    OBVIOUS
<1>14. r \in RequestSet /\ r.id = id + n /\ r.heard = all
    <2>1. id + n \in Nat /\ all \in Seq(Nat)
        BY <1>2, <1>11
    <2> QED BY <1>13, <2>1 DEF RequestSet
<1>15. req'[q] = r /\ Alone(q) /\ req' \in [Requests -> RequestSet]
    BY <1>0, <1>12, <1>13, <1>14, BecomeOne
<1>16. /\ stream' \in [Runs -> Seq(Records)] /\ stream'[run] = t
       /\ \A other \in Runs \ {run} : stream'[other] = stream[other]
    BY <1>0, <1>2, <1>10, <1>12 DEF Typed
<1>17. Tells(q, set)
    <2>1. /\ req'[q].id = id + n
          /\ \A other \in Runs \ {run} : stream'[other] = stream[other]
          /\ Len(t) = Len(s) + n
          /\ \A k \in 1..Len(s) : t[k] = s[k]
          /\ \A k \in 1..n : t[Len(s) + k].id = id + k /\ t[Len(s) + k].kind \in set
        BY <1>7, <1>9, <1>10, <1>14, <1>15, <1>16
    <2>2. s = stream[req[q].run] /\ t = stream'[req[q].run]
        BY <1>1, <1>8, <1>16
    <2>3. /\ req'[q].id = req[q].id + n
          /\ \A other \in Runs \ {req[q].run} : stream'[other] = stream[other]
          /\ Len(stream'[req[q].run]) = Len(stream[req[q].run]) + n
          /\ \A k \in 1..Len(stream[req[q].run]) : stream'[req[q].run][k] = stream[req[q].run][k]
          /\ \A k \in 1..n : /\ stream'[req[q].run][Len(stream[req[q].run]) + k].id = req[q].id + k
                             /\ stream'[req[q].run][Len(stream[req[q].run]) + k].kind \in set
        BY <1>1, <2>1, <2>2
    <2> QED BY <1>2, <2>3 DEF Tells
<1>18. id + n \in Nat
    BY <1>2
<1>19. Told(req'[q], next)
    BY <1>11, <1>13, <1>15, <1>18 DEF Told
<1>20. /\ req'[q].id = id + n /\ Len(req'[q].heard) = req'[q].id
       /\ \A k \in DOMAIN req'[q].heard : req'[q].heard[k] = k
    BY <1>11, <1>14, <1>15
<1> QED BY <1>1, <1>15, <1>16, <1>17, <1>19, <1>20


\* Only requests and counts change.
LEMMA RestTyped ==
    ASSUME Typed, UNCHANGED <<history, written, stream>>,
           rows' \subseteq Rows, HasNewest', active' \subseteq [run : Nat, msg : Messages],
           req' \in [Requests -> RequestSet],
           used' \in [runs : Nat, pauses : Nat, events : Nat]
    PROVE  Typed'
BY DEF Typed

LEMMA RequestsTyped ==
    ASSUME Typed, UNCHANGED <<rows, history, written, active, stream>>,
           req' \in [Requests -> RequestSet],
           used' \in [runs : Nat, pauses : Nat, events : Nat]
    PROVE  Typed'
<1>1. HasNewest' /\ rows' \subseteq Rows /\ active' \subseteq [run : Nat, msg : Messages]
    BY DEF Typed, HasNewest
<1> QED BY <1>1, RestTyped

\* A step that changes one request, and says how.
LEMMA OneChanges ==
    ASSUME RequestsInv, NEW q \in Requests, NEW r \in RequestSet, Become(q, r),
           UNCHANGED <<rows, history, written, active, stream>>,
           used' \in [runs : Nat, pauses : Nat, events : Nat]
    PROVE  Typed' /\ req'[q] = r /\ Alone(q)
<1>1. req'[q] = r /\ Alone(q) /\ req' \in [Requests -> RequestSet]
    BY BecomeOne DEF RequestsInv
<1> QED BY <1>1, RequestsTyped DEF RequestsInv

\* What is known of a request that has no run of its own.
LEMMA EarlyFacts ==
    ASSUME RequestsInv, NEW q \in Requests
    PROVE  /\ Typed /\ Formed(req[q]) /\ req[q] \in RequestSet /\ req[q].st \in Sessions
           /\ req[q].run <= used.runs /\ req[q].st.run <= used.runs
           /\ used.runs \in Nat /\ used \in [runs : Nat, pauses : Nat, events : Nat]
           /\ req[q].pc \in Early \cup {"follow"} =>
                req[q].id = 0 /\ req[q].result = "none" /\ req[q].seen = <<>> /\ ~req[q].late
           /\ req[q].pc \in Early => req[q].heard = <<>>
BY DEF RequestsInv, Typed, RunsInv, Formed, RequestSet

LEMMA HeardNat ==
    ASSUME Typed, NEW q \in Requests
    PROVE  Heard(q) \in Nat
<1>1. req[q].last \in Nat /\ req[q].heard \in Seq(Nat)
    BY FieldsTyped
<1> QED BY <1>1, LenProperties DEF Heard

LEMMA ArriveWaits ==
    ASSUME RequestsInv, NEW q \in Requests, Arrive(q)
    PROVE  Typed' /\ Formed(req'[q]) /\ Waits(q)
<1>1. PICK m \in Messages \cup {Page}, last \in {0} \cup {Heard(p) : p \in Requests} :
        /\ req[q].pc = "none" /\ (m = Page => last = 0)
        /\ Become(q, [Goes(q, "load") EXCEPT !.msg = m, !.last = last])
        /\ UNCHANGED <<rows, history, written, active, stream, used>>
    BY DEF Arrive, At, mysqlVars, redisVars
<1>2. last \in Nat
    BY HeardNat DEF RequestsInv
<1>3. PICK r : r = [Goes(q, "load") EXCEPT !.msg = m, !.last = last]
    OBVIOUS
<1>4. /\ r \in RequestSet /\ r.pc = "load" /\ r.msg = m /\ r.last = last /\ r.run = req[q].run
      /\ r.id = 0 /\ r.result = "none" /\ r.seen = <<>> /\ ~r.late /\ r.heard = <<>> /\ r.st = req[q].st
    BY <1>1, <1>2, <1>3, EarlyFacts DEF Goes, RequestSet, Early
<1>5. Typed' /\ req'[q] = r /\ Alone(q)
    BY <1>1, <1>3, <1>4, EarlyFacts, OneChanges
<1>6. Formed(r)
    BY <1>1, <1>4 DEF Formed, Early, Owning, Working
<1>7. Waits(q)
    BY <1>1, <1>4, <1>5, EarlyFacts DEF Waits, Follows, Early
<1> QED BY <1>5, <1>6, <1>7

LEMMA LoadWaits ==
    ASSUME RequestsInv, NEW q \in Requests, Load(q)
    PROVE  Typed' /\ Formed(req'[q]) /\ Waits(q)
<1>1. PICK next, ver, st, run :
        /\ next = IF req[q].msg = Page THEN "check" ELSE "find"
        /\ ver = Newest.ver /\ st = Newest.st
        /\ run = IF req[q].msg = Page THEN st.run ELSE 0
    OBVIOUS
<1>2. ver \in Nat /\ st \in Sessions /\ st.run \in Nat /\ st.run <= used.runs /\ used.runs \in Nat
    <2>1. Typed /\ \A s \in rows : s.st.run <= used.runs
        BY DEF RequestsInv, RunsInv
    <2>2. ver \in Nat /\ st \in Sessions /\ (st = Session \/ \E s \in rows : st = s.st)
        BY <1>1, <2>1, NewestTyped
    <2> QED BY <2>1, <2>2, SessionTyped, EarlyFacts DEF Sessions
<1>3. PICK r : r = [Goes(q, next) EXCEPT !.ver = ver, !.st = st, !.run = run]
    OBVIOUS
<1>4. /\ req[q].pc = "load" /\ Become(q, r)
      /\ UNCHANGED <<rows, history, written, active, stream, used>>
    BY <1>1, <1>3 DEF Load, At, mysqlVars, redisVars
<1>5. /\ r \in RequestSet /\ r.pc = next /\ r.msg = req[q].msg /\ r.last = req[q].last
      /\ r.run = run /\ r.st = st
      /\ r.id = 0 /\ r.result = "none" /\ r.seen = <<>> /\ ~r.late /\ r.heard = <<>>
    <2>1. PICK base : base = Goes(q, next)
        OBVIOUS
    <2>2. next \in Early /\ req[q].pc \in Early
        BY <1>1, <1>4 DEF Early
    <2>3. /\ base \in RequestSet /\ base.pc = next /\ base.msg = req[q].msg
          /\ base.last = req[q].last /\ base.result = "none"
          /\ base.id = 0 /\ base.seen = <<>> /\ ~base.late /\ base.heard = <<>>
        <3>1. /\ req[q] \in RequestSet /\ req[q].id = 0 /\ req[q].result = "none"
              /\ req[q].seen = <<>> /\ ~req[q].late /\ req[q].heard = <<>>
            BY <2>2, EarlyFacts
        <3>2. base = [req[q] EXCEPT !.pc = next]
            BY <2>1 DEF Goes
        <3> QED BY <2>2, <3>1, <3>2 DEF RequestSet
    <2>4. r = [base EXCEPT !.ver = ver, !.st = st, !.run = run]
        BY <1>3, <2>1
    <2>5. run \in Nat
        BY <1>1, <1>2
    <2> QED BY <1>2, <2>3, <2>4, <2>5 DEF RequestSet
<1>6. Typed' /\ req'[q] = r /\ Alone(q)
    BY <1>4, <1>5, EarlyFacts, OneChanges
<1>7. Formed(r)
    BY <1>1, <1>4, <1>5, EarlyFacts DEF Formed, Early, Owning, Working
<1>8. Waits(q)
    BY <1>1, <1>2, <1>4, <1>5, <1>6 DEF Waits, Follows, Early
<1> QED BY <1>6, <1>7, <1>8

LEMMA FindWaits ==
    ASSUME RequestsInv, NEW q \in Requests, Find(q)
    PROVE  Typed' /\ Formed(req'[q]) /\ Waits(q)
<1>1. /\ req[q].pc = "find" /\ UNCHANGED <<rows, history, written, active, stream, used>>
      /\ \/ Become(q, Goes(q, "lookup"))
         \/ \E a \in active : a.msg = req[q].msg /\ Become(q, [Goes(q, "check") EXCEPT !.run = a.run])
    BY DEF Find, At, mysqlVars, redisVars
<1>2. CASE Become(q, Goes(q, "lookup"))
    <2>1. PICK r : r = Goes(q, "lookup")
        OBVIOUS
    <2>2. /\ r \in RequestSet /\ r.pc = "lookup" /\ r.msg = req[q].msg /\ r.last = req[q].last
          /\ r.run = req[q].run /\ r.st = req[q].st
          /\ r.id = 0 /\ r.result = "none" /\ r.seen = <<>> /\ ~r.late /\ r.heard = <<>>
        BY <1>1, <2>1, EarlyFacts DEF Goes, RequestSet, Early
    <2>3. Typed' /\ req'[q] = r /\ Alone(q)
        BY <1>1, <1>2, <2>1, <2>2, EarlyFacts, OneChanges
    <2>4. Formed(r)
        BY <2>2, EarlyFacts DEF Formed, Early, Owning, Working
    <2>5. Waits(q)
        BY <1>1, <2>2, <2>3, EarlyFacts DEF Waits, Follows, Early
    <2> QED BY <2>3, <2>4, <2>5
<1>3. ASSUME NEW a \in active, a.msg = req[q].msg, Become(q, [Goes(q, "check") EXCEPT !.run = a.run])
      PROVE  Typed' /\ Formed(req'[q]) /\ Waits(q)
    <2>0. a.run \in Nat /\ a.run <= used.runs /\ a = [run |-> a.run, msg |-> a.msg]
        BY DEF RequestsInv, Typed, RunsInv
    <2>1. PICK r : r = [Goes(q, "check") EXCEPT !.run = a.run]
        OBVIOUS
    <2>2. /\ r \in RequestSet /\ r.pc = "check" /\ r.msg = req[q].msg /\ r.last = req[q].last
          /\ r.run = a.run /\ r.st = req[q].st
          /\ r.id = 0 /\ r.result = "none" /\ r.seen = <<>> /\ ~r.late /\ r.heard = <<>>
        BY <1>1, <2>0, <2>1, EarlyFacts DEF Goes, RequestSet, Early
    <2>3. Typed' /\ req'[q] = r /\ Alone(q)
        BY <1>1, <1>3, <2>1, <2>2, EarlyFacts, OneChanges
    <2>4. Formed(r)
        BY <2>2, EarlyFacts DEF Formed, Early, Owning, Working
    <2>5. Waits(q)
        <3>1. [run |-> r.run, msg |-> r.msg] \in active
            BY <1>3, <2>0, <2>2
        <3> QED BY <1>1, <2>0, <2>2, <2>3, <3>1, EarlyFacts DEF Waits, Early
    <2> QED BY <2>3, <2>4, <2>5
<1> QED BY <1>1, <1>2, <1>3

LEMMA CheckWaits ==
    ASSUME RequestsInv, NEW q \in Requests, Check(q)
    PROVE  Typed' /\ Formed(req'[q]) /\ Waits(q)
<1>1. PICK r, next, run :
        /\ \/ next = "follow" /\ run = req[q].run /\ run # 0 /\ r = Goes(q, next)
           \/ /\ next = IF req[q].msg = Page THEN "begin" ELSE "lookup"
              /\ run = 0 /\ r = [Goes(q, next) EXCEPT !.run = 0]
        /\ req[q].pc = "check" /\ Become(q, r)
        /\ UNCHANGED <<rows, history, written, active, stream, used>>
    <2>1. CASE req[q].run # 0 /\ After(req[q].run, req[q].last) # <<>>
        BY <2>1 DEF Check, At, mysqlVars, redisVars
    <2>2. CASE ~(req[q].run # 0 /\ After(req[q].run, req[q].last) # <<>>)
        BY <2>2 DEF Check, At, mysqlVars, redisVars
    <2> QED BY <2>1, <2>2
<1>2. /\ r \in RequestSet /\ r.pc = next /\ r.msg = req[q].msg /\ r.last = req[q].last
      /\ r.run = run /\ r.st = req[q].st
      /\ r.id = 0 /\ r.result = "none" /\ r.seen = <<>> /\ ~r.late /\ r.heard = <<>>
    BY <1>1, EarlyFacts DEF Goes, RequestSet, Early
<1>3. Typed' /\ req'[q] = r /\ Alone(q)
    BY <1>1, <1>2, EarlyFacts, OneChanges
<1>4. Formed(r) /\ run \in Nat /\ run <= used.runs
    <2>1. run \in Nat /\ run <= used.runs /\ (next = "follow" => run > 0)
        BY <1>1, EarlyFacts DEF RequestSet
    <2>2. /\ next \in {"follow", "begin", "lookup"} /\ (next = "begin" => req[q].msg = Page)
          /\ req[q].msg = Page => req[q].last = 0
        BY <1>1, EarlyFacts DEF Formed
    <2> QED BY <1>2, <2>1, <2>2 DEF Formed, Early, Owning, Working
<1>5. Waits(q)
    <2>1. Follows(req'[q]) => Follows(req[q]) /\ SameRun(q)
        BY <1>1, <1>2, <1>3 DEF Follows, SameRun
    <2> QED BY <1>1, <1>2, <1>3, <1>4, <2>1, EarlyFacts DEF Waits, Early
<1> QED BY <1>3, <1>4, <1>5

LEMMA LookupWaits ==
    ASSUME RequestsInv, NEW q \in Requests, Lookup(q)
    PROVE  Typed' /\ Formed(req'[q]) /\ Waits(q)
<1>1. /\ req[q].pc = "lookup" /\ UNCHANGED <<rows, history, written, active, stream, used>>
      /\ \/ Become(q, Ends(q, "reload"))
         \/ req[q].last = 0 /\ Become(q, Goes(q, "begin"))
    BY DEF Lookup, Known, At, mysqlVars, redisVars
<1>2. PICK r, pc, result :
        /\ \/ r = Ends(q, "reload") /\ pc = "ended" /\ result = "reload"
           \/ r = Goes(q, "begin") /\ pc = "begin" /\ result = "none" /\ req[q].last = 0
        /\ Become(q, r)
    BY <1>1
<1>3. /\ r \in RequestSet /\ r.pc = pc /\ r.msg = req[q].msg /\ r.last = req[q].last
      /\ r.run = req[q].run /\ (r.st = req[q].st \/ r.st.run = 0)
      /\ r.id = 0 /\ r.result = result /\ r.seen = <<>> /\ ~r.late /\ r.heard = <<>>
    BY <1>1, <1>2, EarlyFacts, EndsTyped, GoesTyped, SessionTyped DEF Early, Results
<1>4. Typed' /\ req'[q] = r /\ Alone(q)
    BY <1>1, <1>2, <1>3, EarlyFacts, OneChanges
<1>5. Formed(r)
    BY <1>2, <1>3, EarlyFacts DEF Formed, Early, Owning, Working
<1>6. Waits(q)
    BY <1>1, <1>2, <1>3, <1>4, EarlyFacts DEF Waits, Follows, Early
<1> QED BY <1>4, <1>5, <1>6


LEMMA FollowWaits ==
    ASSUME RequestsInv, NEW q \in Requests, Follow(q)
    PROVE  Typed' /\ Formed(req'[q]) /\ Waits(q)
<1>1. PICK n \in DOMAIN After(req[q].run, Heard(q)) :
        /\ req[q].pc = "follow" /\ UNCHANGED <<rows, history, written, active, stream, used>>
        /\ LET new == SubSeq(After(req[q].run, Heard(q)), 1, n)
           IN Become(q, [(IF EndOfRun(new) THEN Ends(q, "ok") ELSE req[q])
                          EXCEPT !.heard = @ \o [k \in DOMAIN new |-> new[k].id]])
    BY DEF Follow, At, mysqlVars, redisVars
<1>2. req[q].run \in Runs /\ req[q].run > 0
    BY <1>1, EarlyFacts, GivenRuns DEF RequestsInv, Formed
<1>3. PICK from : from = Heard(q) + 1
    OBVIOUS
<1>4. PICK all, s : all = From(req[q].run, from) /\ s = stream[req[q].run]
    OBVIOUS
<1>5. After(req[q].run, Heard(q)) = all
    BY <1>3, <1>4 DEF After
<1>6. /\ from \in Nat /\ from > 0 /\ from = Heard(q) + 1
      /\ Heard(q) \in Nat /\ Heard(q) = req[q].last + Len(req[q].heard)
    BY <1>3, HeardNat DEF Heard, RequestsInv
<1>7. /\ all \in Seq(Records) /\ DOMAIN all = 1..Len(all) /\ Len(all) \in Nat
      /\ \A k \in DOMAIN all : from + k - 1 \in DOMAIN s /\ all[k] = s[from + k - 1] /\ all[k].id = from + k - 1
    BY <1>2, <1>4, <1>6, ReadsFrom
<1>8. n \in Nat /\ n > 0 /\ n <= Len(all)
    BY <1>1, <1>5, <1>7
<1>9. PICK new : new = SubSeq(all, 1, n)
    OBVIOUS
<1>10. /\ new \in Seq(Records) /\ Len(new) = n /\ DOMAIN new = 1..n
       /\ \A k \in 1..n : new[k] = all[k] /\ new[k].id = from + k - 1
    <2>1. \A k \in 1..n : k \in DOMAIN all /\ all[k] \in Records
        BY <1>7, <1>8, ElementOfSeq
    <2>2. /\ new \in Seq(Records) /\ Len(new) = n
          /\ \A k \in 1..n : new[k] = all[k]
        BY <1>8, <1>9, <2>1, SubSeqProperties
    <2>3. DOMAIN new = 1..n
        BY <2>2, LenProperties
    <2> QED BY <1>7, <2>1, <2>2, <2>3
<1>11. PICK ids, h, all2 :
         /\ ids = [k \in DOMAIN new |-> new[k].id] /\ h = req[q].heard /\ all2 = h \o ids
    OBVIOUS
<1>12. ids \in Seq(Nat) /\ Len(ids) = n /\ \A k \in 1..n : ids[k] = from + k - 1
    <2>1. ids \in [1..n -> Nat]
        BY <1>6, <1>10, <1>11
    <2> QED BY <1>8, <1>10, <1>11, <2>1, SeqOfLength
<1>13. h \in Seq(Nat) /\ Len(h) \in Nat /\ DOMAIN h = 1..Len(h) /\ req[q].last \in Nat
       /\ \A k \in DOMAIN h : h[k] = req[q].last + k
    BY <1>11, EarlyFacts, FieldsTyped, LenProperties DEF Formed
<1>14. /\ all2 \in Seq(Nat) /\ Len(all2) = Len(h) + n /\ DOMAIN all2 = 1..(Len(h) + n)
       /\ \A k \in DOMAIN all2 : all2[k] = req[q].last + k
    <2>1. /\ h \o ids \in Seq(Nat) /\ Len(h \o ids) = Len(h) + Len(ids)
          /\ \A k \in 1..(Len(h) + Len(ids)) : (h \o ids)[k] = IF k <= Len(h) THEN h[k] ELSE ids[k - Len(h)]
        BY <1>12, <1>13, ConcatProperties
    <2>2. /\ all2 \in Seq(Nat) /\ Len(all2) = Len(h) + n
          /\ \A k \in 1..(Len(h) + n) : all2[k] = IF k <= Len(h) THEN h[k] ELSE ids[k - Len(h)]
        BY <1>11, <1>12, <2>1
    <2>3. DOMAIN all2 = 1..(Len(h) + n)
        BY <2>2, LenProperties
    <2>4. ASSUME NEW k \in 1..(Len(h) + n) PROVE all2[k] = req[q].last + k
        <3>1. CASE k <= Len(h)
            <4>1. k \in 1..Len(h)
                BY <1>13, <3>1
            <4> QED BY <1>13, <2>2, <3>1, <4>1
        <3>2. CASE ~(k <= Len(h))
            <4>1. k - Len(h) \in 1..n /\ k \in Nat
                BY <1>8, <1>13, <3>2
            <4>2. ids[k - Len(h)] = from + (k - Len(h)) - 1 /\ all2[k] = ids[k - Len(h)]
                BY <1>12, <2>2, <3>2, <4>1
            <4>3. from = req[q].last + Len(h) + 1
                BY <1>6, <1>11
            <4> QED BY <1>13, <4>1, <4>2, <4>3
        <3> QED BY <3>1, <3>2
    <2> QED BY <2>2, <2>3, <2>4
<1>15. PICK base, r, pc, result :
         /\ base = (IF EndOfRun(new) THEN Ends(q, "ok") ELSE req[q])
         /\ pc = (IF EndOfRun(new) THEN "ended" ELSE "follow")
         /\ result = (IF EndOfRun(new) THEN "ok" ELSE "none")
         /\ r = [base EXCEPT !.heard = all2]
    OBVIOUS
<1>16. Become(q, r)
    <2>1. base.heard = h
        BY <1>11, <1>15, EarlyFacts, EndsTyped DEF Results
    <2>2. Become(q, [base EXCEPT !.heard = @ \o ids])
        BY <1>1, <1>5, <1>9, <1>11, <1>15
    <2> QED BY <1>11, <1>15, <2>1, <2>2
<1>17. /\ base \in RequestSet /\ base.pc = pc /\ base.result = result /\ base.msg = req[q].msg
       /\ base.last = req[q].last /\ base.run = req[q].run /\ base.id = 0 /\ base.seen = <<>> /\ ~base.late
       /\ base.st = req[q].st \/ base.st.run = 0
    BY <1>1, <1>15, EarlyFacts, EndsTyped, SessionTyped DEF Results
<1>18. /\ r \in RequestSet /\ r.pc = pc /\ r.result = result /\ r.msg = req[q].msg
       /\ r.last = req[q].last /\ r.run = req[q].run /\ r.id = 0 /\ r.seen = <<>> /\ ~r.late
       /\ r.st = req[q].st \/ r.st.run = 0
       /\ r.heard = all2
    BY <1>14, <1>15, <1>17 DEF RequestSet
<1>19. Typed' /\ req'[q] = r /\ Alone(q)
    BY <1>1, <1>16, <1>18, EarlyFacts, OneChanges
<1>20. Formed(r)
    <2>1. pc \in {"follow", "ended"} /\ (pc = "follow" => result = "none")
        BY <1>15
    <2>2. req[q].msg = Page => req[q].last = 0
        BY EarlyFacts DEF Formed
    <2> QED BY <1>2, <1>14, <1>18, <2>1, <2>2 DEF Formed, Early, Owning, Working
<1>21. Waits(q)
    <2>1. r.result = "ok" =>
            \E i \in DOMAIN stream[req[q].run] :
              stream[req[q].run][i].kind = "final" /\ r.last + Len(r.heard) = i
        <3> SUFFICES ASSUME r.result = "ok"
                     PROVE  \E i \in DOMAIN s : s[i].kind = "final" /\ r.last + Len(r.heard) = i
            BY <1>4
        <3>1. Last(new).kind = "final"
            BY <1>15, <1>18 DEF EndOfRun
        <3>2. Last(new) = new[n]
            BY <1>10 DEF Last
        <3>3. n \in 1..n /\ n \in DOMAIN all
            BY <1>7, <1>8
        <3>4. from + n - 1 \in DOMAIN s /\ s[from + n - 1].kind = "final"
            BY <1>7, <1>10, <3>1, <3>2, <3>3
        <3>5. r.last + Len(r.heard) = from + n - 1
            <4>1. from = req[q].last + Len(h) + 1
                BY <1>6, <1>11
            <4>2. r.last = req[q].last /\ Len(r.heard) = Len(h) + n
                BY <1>14, <1>18
            <4> QED BY <1>8, <1>13, <4>1, <4>2
        <3> QED BY <3>4, <3>5
    <2>2. SameRun(q)
        BY <1>18, <1>19 DEF SameRun
    <2>3. pc \in {"follow", "ended"}
        BY <1>15
    <2>4. Follows(r) => Follows(req[q])
        BY <1>1, <1>18 DEF Follows
    <2> QED BY <1>1, <1>18, <1>19, <2>1, <2>2, <2>3, <2>4, EarlyFacts DEF Waits, Early
<1> QED BY <1>19, <1>20, <1>21

LEMMA TimeOutWaits ==
    ASSUME RequestsInv, NEW q \in Requests, TimeOut(q)
    PROVE  Typed' /\ Formed(req'[q]) /\ Waits(q)
<1>1. PICK run, st : run = used.runs + 1 /\ st = [req[q].st EXCEPT !.run = run]
    OBVIOUS
<1>2. /\ req[q].pc = "follow" /\ UNCHANGED <<history, written, active, stream>>
      /\ \/ Become(q, Ends(q, "reload")) /\ UNCHANGED <<rows, used>>
         \/ /\ used' = [used EXCEPT !.runs = run]
            /\ \/ CanSave(q) /\ rows' = Saved(q, st) /\ Become(q, Ends(q, "reload"))
               \/ UNCHANGED rows /\ Become(q, Ends(q, "error"))
    <2>1. CASE req[q].st.run = 0
        BY <2>1 DEF TimeOut, At, redisVars
    <2>2. CASE req[q].st.run # 0
        BY <1>1, <2>2 DEF TimeOut, At, redisVars
    <2> QED BY <2>1, <2>2
<1>3. run \in Nat /\ st \in Sessions /\ st.run = run
    BY <1>1, EarlyFacts, SMTT(30) DEF Sessions
<1>4. PICK result \in {"reload", "error"} : Become(q, Ends(q, result))
    BY <1>2
<1>5. PICK r : r = Ends(q, result)
    OBVIOUS
<1>6. /\ r \in RequestSet /\ r.pc = "ended" /\ r.result = result /\ r.msg = req[q].msg
      /\ r.last = req[q].last /\ r.run = req[q].run /\ r.id = 0 /\ r.seen = <<>> /\ ~r.late
      /\ r.st.run = 0 /\ r.heard = req[q].heard
    BY <1>2, <1>5, EarlyFacts, EndsTyped, SessionTyped DEF Results
<1>7. req'[q] = r /\ Alone(q) /\ req' \in [Requests -> RequestSet]
    BY <1>4, <1>5, <1>6, EarlyFacts, BecomeOne
<1>8. /\ used' \in [runs : Nat, pauses : Nat, events : Nat]
      /\ used' = used \/ used'.runs = used.runs + 1
    BY <1>1, <1>2, <1>3, EarlyFacts
<1>9. /\ rows' \subseteq Rows /\ HasNewest'
      /\ \/ rows' = rows
         \/ used'.runs = used.runs + 1 /\ \A s \in rows' : s \in rows \/ s.st.run = used'.runs
    <2>1. CASE UNCHANGED rows
        BY <2>1, EarlyFacts DEF Typed, HasNewest
    <2>2. CASE used' = [used EXCEPT !.runs = run] /\ CanSave(q) /\ rows' = Saved(q, st)
        <3>1. /\ rows' \subseteq Rows /\ HasNewest'
              /\ rows' = {s \in rows : s.ver # req[q].ver} \cup {[ver |-> Version(q), st |-> st]}
            BY <1>3, <2>2, EarlyFacts, SavedTyped
        <3>2. used'.runs = run
            BY <2>2, EarlyFacts
        <3>3. PICK new : new = [ver |-> Version(q), st |-> st]
            OBVIOUS
        <3>4. new.st.run = run /\ \A s \in rows' : s \in rows \/ s = new
            BY <1>3, <3>1, <3>3
        <3> QED BY <1>1, <3>1, <3>2, <3>4
    <2> QED BY <1>2, <2>1, <2>2
<1>10. Typed'
    BY <1>2, <1>7, <1>8, <1>9, EarlyFacts, RestTyped DEF Typed
<1>11. Formed(r)
    BY <1>2, <1>6, EarlyFacts DEF Formed, Early, Owning, Working
<1>12. Waits(q)
    <2>1. \/ used'.runs = used.runs /\ rows' = rows
          \/ used'.runs = used.runs + 1 /\ \A s \in rows' : s \in rows \/ s.st.run = used'.runs
        BY <1>8, <1>9
    <2> QED BY <1>2, <1>4, <1>6, <1>7, <2>1, EarlyFacts DEF Waits, Follows, Early
<1> QED BY <1>7, <1>10, <1>11, <1>12

LEMMA BeginBegins ==
    ASSUME RequestsInv, NEW q \in Requests, Begin(q)
    PROVE  Typed' /\ Formed(req'[q]) /\ Begins(q)
<1>1. PICK left, run :
        /\ left = (IF req[q].msg = Page THEN req[q].st ELSE Cleaned(req[q].st))
        /\ run = used.runs + 1
    OBVIOUS
<1>2. PICK kept \in Kept(left) :
        Become(q, [Goes(q, IF kept.told = <<>> THEN "push" ELSE "replay") EXCEPT
                     !.run = run, !.st = [kept EXCEPT !.run = run]])
    BY <1>1 DEF Begin
<1>3. PICK pc, st, r :
        /\ pc = (IF kept.told = <<>> THEN "push" ELSE "replay")
        /\ st = [kept EXCEPT !.run = run]
        /\ r = [Goes(q, pc) EXCEPT !.run = run, !.st = st]
    OBVIOUS
<1>4. /\ req[q].pc = "begin" /\ Become(q, r)
      /\ active' = (IF req[q].msg = Page THEN active ELSE active \cup {[run |-> run, msg |-> req[q].msg]})
      /\ used' = [used EXCEPT !.runs = run]
      /\ UNCHANGED <<rows, history, written, stream>>
    BY <1>1, <1>2, <1>3 DEF Begin, At, mysqlVars
<1>5. /\ run \in Nat /\ run > 0 /\ st \in Sessions
      /\ st.run = run /\ st.told = kept.told /\ st.queue = kept.queue /\ st.task = kept.task
      /\ req[q].msg # Page => kept.told = <<>> /\ kept.queue = <<>> /\ kept.task = {}
    <2>1. run \in Nat /\ run > 0 /\ left \in Sessions
        BY <1>1, EarlyFacts, SessionTyped
    <2>2. /\ kept \in Sessions /\ kept.queue = left.queue /\ kept.task = left.task
          /\ kept.told = left.told
        BY <2>1, KeptTyped
    <2>3. req[q].msg # Page => left.told = <<>> /\ left.queue = <<>> /\ left.task = {}
        BY <1>1, EarlyFacts, SessionTyped
    <2>4. /\ st \in Sessions /\ st.run = run /\ st.told = kept.told /\ st.queue = kept.queue
          /\ st.task = kept.task
        BY <1>3, <2>1, <2>2 DEF Sessions
    <2> QED BY <2>1, <2>2, <2>3, <2>4
<1>6. /\ r \in RequestSet /\ r.pc = pc /\ r.msg = req[q].msg /\ r.last = 0
      /\ r.run = run /\ r.st = st
      /\ r.id = 0 /\ r.result = "none" /\ r.heard = <<>>
    <2>1. pc \in Owning
        BY <1>3 DEF Owning, Working
    <2>2. req[q].last = 0
        BY <1>4, EarlyFacts DEF Formed
    <2>3. PICK base : base = Goes(q, pc)
        OBVIOUS
    <2>4. /\ base \in RequestSet /\ base.pc = pc /\ base.msg = req[q].msg /\ base.last = 0
          /\ base.id = 0 /\ base.result = "none" /\ base.heard = <<>>
        BY <1>4, <2>1, <2>2, <2>3, EarlyFacts, GoesTyped DEF Early
    <2> QED BY <1>3, <1>5, <2>3, <2>4 DEF RequestSet
<1>7. req'[q] = r /\ Alone(q) /\ req' \in [Requests -> RequestSet]
    BY <1>4, <1>6, EarlyFacts, BecomeOne
<1>8. /\ used' \in [runs : Nat, pauses : Nat, events : Nat]
      /\ used'.runs = run
    BY <1>4, <1>5, EarlyFacts
<1>9. /\ \A a \in active' : a \in active \/ a = [run |-> run, msg |-> req[q].msg]
      /\ active' \subseteq [run : Nat, msg : Messages]
    <2>1. req[q].msg # Page => req[q].msg \in Messages
        BY EarlyFacts DEF RequestSet
    <2> QED BY <1>4, <1>5, <2>1, EarlyFacts DEF Typed
<1>10. Typed'
    <2>1. rows' \subseteq Rows /\ HasNewest'
        BY <1>4, EarlyFacts DEF Typed, HasNewest
    <2> QED BY <1>4, <1>7, <1>8, <1>9, <2>1, EarlyFacts, RestTyped
<1>11. Formed(r)
    <2>1. /\ pc \in {"push", "replay"} /\ (pc = "replay" => kept.told # <<>>)
        BY <1>3
    <2>2. Len(r.heard) = 0
        BY <1>6, EmptySeq
    <2> QED BY <1>5, <1>6, <2>1, <2>2 DEF Formed, Early, Owning, Working
<1>12. Begins(q)
    BY <1>1, <1>3, <1>4, <1>5, <1>6, <1>7, <1>8, <1>9, ZenonT(40) DEF Begins
<1> QED BY <1>7, <1>10, <1>11, <1>12


\* What is known of a request that runs.
LEMMA WorkFacts ==
    ASSUME RequestsInv, NEW q \in Requests, req[q].pc \in Working
    PROVE  /\ Typed /\ Formed(req[q]) /\ req[q] \in RequestSet
           /\ req[q].st \in Sessions /\ req[q].late \in BOOLEAN /\ req[q].seen \in Seq(Tasks) /\ req[q].heard \in Seq(Nat)
           /\ req[q].result = "none" /\ req[q].last = 0 /\ Len(req[q].heard) = req[q].id
           /\ req[q].run > 0 /\ req[q].run \in Nat /\ req[q].ver \in Nat
           /\ req[q].st.run = (IF req[q].pc = "tell" THEN 0 ELSE req[q].run)
           /\ \A k \in DOMAIN req[q].heard : req[q].heard[k] = k
           /\ used \in [runs : Nat, pauses : Nat, events : Nat]
<1>1. /\ Typed /\ Formed(req[q]) /\ req[q] \in RequestSet
    BY DEF RequestsInv, Typed
<1>2. /\ req[q].st \in Sessions /\ req[q].late \in BOOLEAN /\ req[q].seen \in Seq(Tasks) /\ req[q].heard \in Seq(Nat)
      /\ req[q].run \in Nat /\ req[q].ver \in Nat /\ req[q].last \in Nat
      /\ used \in [runs : Nat, pauses : Nat, events : Nat]
    BY <1>1 DEF RequestSet, Typed
<1>3. /\ req[q].result = "none" /\ req[q].last = 0 /\ Len(req[q].heard) = req[q].id
      /\ req[q].run > 0 /\ req[q].st.run = (IF req[q].pc = "tell" THEN 0 ELSE req[q].run)
    BY <1>1 DEF Formed, Owning
<1>4. \A k \in DOMAIN req[q].heard : req[q].heard[k] = k
    <2>1. DOMAIN req[q].heard = 1..Len(req[q].heard) /\ Len(req[q].heard) \in Nat
        BY <1>2, LenProperties
    <2>2. \A k \in DOMAIN req[q].heard : req[q].heard[k] = req[q].last + k
        BY <1>1 DEF Formed
    <2> QED BY <1>3, <2>1, <2>2
<1> QED BY <1>1, <1>2, <1>3, <1>4

\* What makes a request that runs well formed after a step.
Sound(r) ==
    /\ r.pc \in Owning \cup {"ended"} /\ r.pc # "replay"
    /\ r.pc \in Owning => r.result = "none"
    /\ r.pc = "start" => r.st.queue # <<>>
    /\ r.pc \in Working => r.st.run = IF r.pc = "tell" THEN 0 ELSE r.run
    /\ r.msg # Page =>
         /\ r.pc = "push" => r.st.queue = <<>> /\ r.st.task = {}
         /\ r.pc = "work" =>
              \/ Done(r)
              \/ r.st.task = {} /\ r.st.queue # <<>> /\ Head(r.st.queue) = Item(r.msg)
         /\ r.pc \in {"start", "answer", "rollback", "save"} => Done(r)

LEMMA SoundFormed ==
    ASSUME RequestsInv, NEW q \in Requests, req[q].pc \in Working,
           NEW r \in RequestSet, Sound(r),
           r.run = req[q].run, r.msg = req[q].msg, r.last = req[q].last,
           Len(r.heard) = r.id, \A k \in DOMAIN r.heard : r.heard[k] = k
    PROVE  Formed(r)
<1>1. r.last = 0 /\ r.run > 0
    BY WorkFacts
<1>2. \A k \in DOMAIN r.heard : r.heard[k] = r.last + k
    <2>1. DOMAIN r.heard = 1..Len(r.heard)
        BY LenProperties DEF RequestSet
    <2> QED BY <1>1, <2>1
<1> QED BY <1>1, <1>2 DEF Sound, Formed, Owning, Working, Early

\* A save of the session, and the version that the request holds after it.
LEMMA SavesRow ==
    ASSUME Typed, NEW q \in Requests, NEW st \in Sessions, CanSave(q), rows' = Saved(q, st),
           req'[q].pc = "ended" \/ req'[q].ver = Version(q)
    PROVE  rows' \subseteq Rows /\ HasNewest' /\ Saves(q, st.run)
<1>1. PICK v, new : v = Version(q) /\ new = [ver |-> v, st |-> st]
    OBVIOUS
<1>2. /\ rows' \subseteq Rows /\ HasNewest'
      /\ rows' = {r \in rows : r.ver # req[q].ver} \cup {new}
    BY <1>1, SavedTyped
<1>3. new \in rows' /\ new.st.run = st.run /\ new.ver = v
    BY <1>1, <1>2
<1> QED BY <1>1, <1>2, <1>3 DEF Saves

LEMMA VersionTyped ==
    ASSUME Typed, NEW q \in Requests
    PROVE  Version(q) \in Nat
BY NewestTyped, FieldsTyped DEF Version

\* A request whose session is st, and saved.
Stored(q, next, st) == [Goes(q, next) EXCEPT !.ver = Version(q), !.st = st]

\* A checkpoint writes the row of the run, or fails.
LEMMA CheckpointRow ==
    ASSUME RequestsInv, NEW q \in Requests, NEW st \in Sessions, NEW next \in Owning,
           Failed(q) \in RequestSet, Checkpoint(q, st, next)
    PROVE  /\ rows' \subseteq Rows /\ HasNewest' /\ Alone(q) /\ req' \in [Requests -> RequestSet]
           /\ \/ /\ Saves(q, st.run)
                 /\ req'[q] = Stored(q, next, st)
              \/ rows' = rows /\ req'[q] = Failed(q)
<1>0. Typed
    BY DEF RequestsInv
<1>1. CASE /\ CanSave(q) /\ rows' = Saved(q, st)
           /\ Become(q, [Goes(q, next) EXCEPT !.ver = Version(q), !.st = st])
    <2>1. PICK v, base, r : v = Version(q) /\ base = Goes(q, next) /\ r = [base EXCEPT !.ver = v, !.st = st]
        OBVIOUS
    <2>2. base \in RequestSet /\ v \in Nat
        BY <1>0, <2>1, GoesTyped, VersionTyped
    <2>3. r \in RequestSet /\ r.ver = v
        BY <2>1, <2>2 DEF RequestSet
    <2>4. req'[q] = r /\ Alone(q) /\ req' \in [Requests -> RequestSet]
        BY <1>0, <1>1, <2>1, <2>3, BecomeOne
    <2>5. req'[q].ver = Version(q)
        BY <2>1, <2>3, <2>4
    <2>6. rows' \subseteq Rows /\ HasNewest' /\ Saves(q, st.run)
        BY <1>0, <1>1, <2>5, SavesRow
    <2> QED BY <2>1, <2>4, <2>6 DEF Stored
<1>2. CASE UNCHANGED rows /\ Become(q, Failed(q))
    <2>1. req'[q] = Failed(q) /\ Alone(q) /\ req' \in [Requests -> RequestSet]
        BY <1>0, <1>2, BecomeOne
    <2>2. rows' \subseteq Rows /\ HasNewest'
        BY <1>0, <1>2 DEF Typed, HasNewest
    <2> QED BY <1>2, <2>1, <2>2
<1> QED BY <1>1, <1>2 DEF Checkpoint

\* The fields of a request whose session is saved.
LEMMA StoredTyped ==
    ASSUME RequestsInv, NEW q \in Requests, req[q].pc \in Working,
           NEW st \in Sessions, NEW next \in Owning
    PROVE  LET r == Stored(q, next, st)
           IN /\ r \in RequestSet /\ r.pc = next /\ r.result = "none" /\ r.st = st
              /\ r.ver = Version(q) /\ r.seen = req[q].seen /\ r.late = req[q].late
              /\ r.run = req[q].run /\ r.msg = req[q].msg /\ r.last = req[q].last
              /\ r.id = req[q].id /\ r.heard = req[q].heard
<1>1. PICK v, base, r : v = Version(q) /\ base = Goes(q, next) /\ r = [base EXCEPT !.ver = v, !.st = st]
    OBVIOUS
<1>2. /\ base \in RequestSet /\ base.pc = next /\ base.result = "none"
      /\ base.seen = req[q].seen /\ base.late = req[q].late
      /\ base.run = req[q].run /\ base.msg = req[q].msg /\ base.last = req[q].last
      /\ base.id = req[q].id /\ base.heard = req[q].heard /\ v \in Nat
    BY <1>1, GoesTyped, VersionTyped, WorkFacts, SMTT(30)
<1>3. /\ r \in RequestSet /\ r.pc = next /\ r.result = "none" /\ r.st = st
      /\ r.ver = v /\ r.seen = req[q].seen /\ r.late = req[q].late
      /\ r.run = req[q].run /\ r.msg = req[q].msg /\ r.last = req[q].last
      /\ r.id = req[q].id /\ r.heard = req[q].heard
    BY <1>1, <1>2 DEF RequestSet
<1> QED BY <1>1, <1>3 DEF Stored

\* A request that runs says records and goes on.
LEMMA SaysWorks ==
    ASSUME RequestsInv, NEW q \in Requests, req[q].pc \in Working,
           NEW kinds \in Seq(Kinds \ {"final"}), NEW next \in RequestSet,
           next.id = req[q].id, next.heard = req[q].heard, Emit(q, kinds, next),
           next.run = req[q].run, next.msg = req[q].msg, next.last = req[q].last,
           next.ver = req[q].ver, next.st = req[q].st, req[q].late => next.late, Formed(next), next.pc \in Owning,
           next.pc = "tell" <=> req[q].pc = "tell", next.pc \in Closing <=> req[q].pc \in Closing,
           UNCHANGED <<rows, history, written, active>>,
           used' \in [runs : Nat, pauses : Nat, events : Nat],
           used'.runs = used.runs
    PROVE  Typed' /\ Formed(req'[q]) /\ Works(q)
<1>1. PICK set : set = Kinds \ {"final"}
    OBVIOUS
<1>2. /\ stream' \in [Runs -> Seq(Records)] /\ req' \in [Requests -> RequestSet]
      /\ Alone(q) /\ Tells(q, set)
      /\ req'[q].id = req[q].id + Len(kinds)
      /\ Len(req'[q].heard) = req'[q].id
      /\ \A k \in DOMAIN req'[q].heard : req'[q].heard[k] = k
      /\ Told(req'[q], next)
    <2>1. set \in SUBSET Kinds /\ kinds \in Seq(set)
        BY <1>1
    <2> QED BY <2>1, EmitTells
<1>3. PICK r : r = req'[q]
    OBVIOUS
<1>4. /\ r \in RequestSet /\ r.pc = next.pc /\ r.run = next.run /\ r.msg = next.msg /\ r.last = next.last
      /\ r.ver = next.ver /\ r.st = next.st /\ r.seen = next.seen /\ r.late = next.late /\ r.result = next.result
    BY <1>2, <1>3, SMTT(30) DEF RequestSet, Told
<1>5. Typed'
    <2>1. HasNewest'
        BY WorkFacts DEF Typed, HasNewest
    <2> QED BY <1>2, <2>1, WorkFacts DEF Typed
<1>6. Formed(r) /\ next.result = "none"
    <2>1. r.last = 0 /\ next.result = "none"
        BY <1>4, WorkFacts DEF Formed, Owning
    <2>2. \A k \in DOMAIN r.heard : r.heard[k] = r.last + k
        <3>1. DOMAIN r.heard = 1..Len(r.heard)
            BY <1>4, LenProperties DEF RequestSet
        <3> QED BY <1>2, <1>3, <2>1, <3>1
    <2> QED BY <1>2, <1>3, <1>4, <2>1, <2>2 DEF Formed, Done, Owning, Working, Early
<1>7. Works(q)
    <2>1. SameRun(q) /\ r.st.run \in {0, req[q].run}
        BY <1>3, <1>4, WorkFacts DEF SameRun
    <2> QED BY <1>1, <1>2, <1>3, <1>4, <1>6, <2>1 DEF Works
<1> QED BY <1>3, <1>5, <1>6, <1>7


LEMMA ReplayWorks ==
    ASSUME RequestsInv, NEW q \in Requests, Replay(q)
    PROVE  Typed' /\ Formed(req'[q]) /\ Works(q)
<1>1. PICK told, n : told = req[q].st.told /\ n = 2 * Len(told) - 1
    OBVIOUS
<1>2. PICK kinds, next :
        /\ kinds = [k \in 1..n |-> IF k % 2 = 1 THEN "chunk" ELSE "complete"]
        /\ next = [Goes(q, "push") EXCEPT !.seen = told]
    OBVIOUS
<1>3. /\ req[q].pc = "replay" /\ Emit(q, kinds, next)
      /\ UNCHANGED <<rows, history, written, active, used>>
    BY <1>1, <1>2 DEF Replay, At, mysqlVars
<1>4. req[q].pc \in Working
    BY <1>3 DEF Working
<1>5. told \in Seq(Tasks) /\ told # <<>> /\ n \in Nat
    <2>1. told \in Seq(Tasks)
        BY <1>1, <1>4, WorkFacts DEF Sessions
    <2>2. told # <<>>
        BY <1>1, <1>3, <1>4, WorkFacts DEF Formed
    <2>3. Len(told) \in Nat \ {0}
        BY <2>1, <2>2, EmptySeq
    <2> QED BY <1>1, <2>1, <2>2, <2>3
<1>6. kinds \in Seq(Kinds \ {"final"})
    <2>1. kinds \in [1..n -> Kinds \ {"final"}]
        BY <1>2 DEF Kinds
    <2> QED BY <1>5, <2>1, SeqOfLength
<1>7. PICK base : base = Goes(q, "push")
    OBVIOUS
<1>8. /\ base \in RequestSet /\ base.pc = "push" /\ base.result = "none" /\ base.ver = req[q].ver
      /\ base.st = req[q].st /\ base.run = req[q].run /\ base.msg = req[q].msg
      /\ base.last = req[q].last /\ base.late = req[q].late /\ base.id = req[q].id /\ base.heard = req[q].heard
    BY <1>4, <1>7, GoesTyped, WorkFacts DEF Owning, Working
<1>9. /\ next \in RequestSet /\ next.pc = "push" /\ next.result = "none" /\ next.ver = req[q].ver
      /\ next.st = req[q].st /\ next.run = req[q].run /\ next.msg = req[q].msg
      /\ next.last = req[q].last /\ next.late = req[q].late /\ next.id = req[q].id /\ next.heard = req[q].heard
    BY <1>2, <1>5, <1>7, <1>8 DEF RequestSet
<1>10. Formed(next)
    <2>1. req[q].msg = Page
        BY <1>3, <1>4, WorkFacts DEF Formed
    <2>2. Sound(next)
        BY <1>3, <1>4, <1>9, <2>1, WorkFacts DEF Sound, Owning, Working
    <2> QED BY <1>4, <1>9, <2>2, SoundFormed, WorkFacts
<1>11. /\ next.pc \in Owning
       /\ next.pc = "tell" <=> req[q].pc = "tell"
       /\ next.pc \in Closing <=> req[q].pc \in Closing
    BY <1>3, <1>9 DEF Owning, Working, Closing
<1> QED BY <1>3, <1>4, <1>6, <1>9, <1>10, <1>11, SaysWorks, WorkFacts


LEMMA EndsSound ==
    ASSUME RequestsInv, NEW q \in Requests, req[q].pc \in Working, NEW result \in Results \ {"ok"}
    PROVE  LET r == Ends(q, result)
           IN /\ r \in RequestSet /\ Sound(r) /\ r.pc = "ended" /\ r.result # "ok" /\ r.st.run = 0
              /\ r.run = req[q].run /\ r.msg = req[q].msg /\ r.last = req[q].last
              /\ r.id = req[q].id /\ r.heard = req[q].heard /\ r.late = req[q].late
<1>1. PICK r : r = Ends(q, result)
    OBVIOUS
<1>2. /\ r \in RequestSet /\ r.pc = "ended" /\ r.result = result /\ r.st.run = 0
      /\ r.run = req[q].run /\ r.msg = req[q].msg /\ r.last = req[q].last
      /\ r.id = req[q].id /\ r.heard = req[q].heard /\ r.late = req[q].late
    BY <1>1, EndsTyped, WorkFacts, SessionTyped
<1>3. Sound(r)
    BY <1>2 DEF Sound, Owning, Working
<1> QED BY <1>1, <1>2, <1>3

\* A task that fails is told to pause, and its run ends with it.
LEMMA RollbackSound ==
    ASSUME RequestsInv, NEW q \in Requests,
           req[q].pc \in {"push", "work", "start", "answer"}, req[q].st.task # {}
    PROVE  LET r == Goes(q, "rollback")
           IN /\ r \in RequestSet /\ Sound(r) /\ r.pc = "rollback" /\ r.result # "ok"
              /\ r.st.run = req[q].run /\ r.ver = req[q].ver /\ r.late = req[q].late
              /\ r.run = req[q].run /\ r.msg = req[q].msg /\ r.last = req[q].last
              /\ r.id = req[q].id /\ r.heard = req[q].heard
<1>1. req[q].pc \in Working
    BY DEF Working
<1>2. PICK r : r = Goes(q, "rollback")
    OBVIOUS
<1>3. /\ r \in RequestSet /\ r.pc = "rollback" /\ r.result = "none" /\ r.st = req[q].st
      /\ r.seen = req[q].seen /\ r.ver = req[q].ver /\ r.late = req[q].late
      /\ r.run = req[q].run /\ r.msg = req[q].msg /\ r.last = req[q].last
      /\ r.id = req[q].id /\ r.heard = req[q].heard
    BY <1>1, <1>2, GoesTyped, WorkFacts DEF Owning, Working
<1>4. Sound(r) /\ r.st.run = req[q].run
    <2>1. r.st.run = req[q].run
        BY <1>1, <1>3, WorkFacts
    <2>2. req[q].msg # Page => Done(req[q])
        BY <1>1, WorkFacts DEF Formed
    <2>3. req[q].msg # Page => Done(r)
        BY <1>3, <2>2 DEF Done
    <2> QED BY <1>3, <2>1, <2>3 DEF Sound, Owning, Working
<1> QED BY <1>2, <1>3, <1>4

\* A call of a run raises: the run goes back to its task, or ends.
LEMMA FailedSound ==
    ASSUME RequestsInv, NEW q \in Requests, req[q].pc \in Working
    PROVE  LET r == Failed(q)
           IN /\ r \in RequestSet /\ Sound(r) /\ r.pc \in {"ended", "rollback"} /\ r.result # "ok"
              /\ r.pc = "rollback" => r.ver = req[q].ver /\ req[q].pc \notin Closing
              /\ r.st.run \in {0, req[q].run} /\ r.late = req[q].late
              /\ r.run = req[q].run /\ r.msg = req[q].msg /\ r.last = req[q].last
              /\ r.id = req[q].id /\ r.heard = req[q].heard
<1>1. CASE req[q].pc \in {"push", "work", "start", "answer"} /\ req[q].st.task # {}
    <2>1. Failed(q) = Goes(q, "rollback") /\ req[q].pc \notin Closing
        BY <1>1 DEF Failed, Closing
    <2> QED BY <1>1, <2>1, RollbackSound
<1>2. CASE ~(req[q].pc \in {"push", "work", "start", "answer"} /\ req[q].st.task # {})
    <2>1. Failed(q) = Ends(q, "error") /\ "error" \in Results \ {"ok"}
        BY <1>2 DEF Failed, Results
    <2> QED BY <2>1, EndsSound
<1> QED BY <1>1, <1>2

\* A checkpoint of a run that goes on with it.
LEMMA CheckpointWorks ==
    ASSUME RequestsInv, NEW q \in Requests, req[q].pc \in Working, req[q].pc # "tell",
           NEW st \in Sessions, st.run \in {0, req[q].run}, NEW next \in Working,
           next = "tell" => st.run = 0, req[q].pc \in Closing <=> next \in Closing,
           Sound(Stored(q, next, st)), Checkpoint(q, st, next),
           UNCHANGED <<history, written, active, stream>>,
           used' \in [runs : Nat, pauses : Nat, events : Nat],
           used'.runs = used.runs
    PROVE  Typed' /\ Formed(req'[q]) /\ Works(q)
<1>1. next \in Owning
    BY DEF Owning
<1>2. PICK fails : fails = Failed(q)
    OBVIOUS
<1>3. /\ fails \in RequestSet /\ Sound(fails) /\ fails.pc \in {"ended", "rollback"} /\ fails.result # "ok"
      /\ fails.pc = "rollback" => fails.ver = req[q].ver /\ req[q].pc \notin Closing
      /\ fails.st.run \in {0, req[q].run} /\ fails.late = req[q].late
      /\ fails.run = req[q].run /\ fails.msg = req[q].msg /\ fails.last = req[q].last
      /\ fails.id = req[q].id /\ fails.heard = req[q].heard
    BY <1>2, FailedSound
<1>4. /\ rows' \subseteq Rows /\ HasNewest' /\ Alone(q) /\ req' \in [Requests -> RequestSet]
      /\ \/ /\ Saves(q, st.run)
            /\ req'[q] = Stored(q, next, st)
         \/ rows' = rows /\ req'[q] = fails
    BY <1>1, <1>2, <1>3, CheckpointRow
<1>5. Typed'
    BY <1>4, RestTyped, WorkFacts DEF Typed
<1>6. CASE Saves(q, st.run) /\ req'[q] = Stored(q, next, st)
    <2>1. PICK r : r = req'[q]
        OBVIOUS
    <2>2. /\ r \in RequestSet /\ r.pc = next /\ r.result = "none" /\ r.st = st /\ r.late = req[q].late
          /\ r.run = req[q].run /\ r.msg = req[q].msg /\ r.last = req[q].last
          /\ r.id = req[q].id /\ r.heard = req[q].heard
        BY <1>1, <1>6, <2>1, StoredTyped
    <2>3. Formed(r)
        <3>1. Sound(r)
            BY <1>6, <2>1
        <3> QED BY <2>2, <3>1, SoundFormed, WorkFacts
    <2>4. Works(q)
        <3>1. SameRun(q) /\ (req[q].late => req'[q].late)
            BY <2>1, <2>2 DEF SameRun
        <3>2. "drop" \notin Working /\ "ended" \notin Working
            BY DEF Working
        <3> QED BY <1>1, <1>4, <1>6, <2>1, <2>2, <3>1, <3>2 DEF Works
    <2> QED BY <1>5, <2>1, <2>3, <2>4
<1>7. CASE rows' = rows /\ req'[q] = fails
    <2>1. Formed(req'[q])
        BY <1>3, <1>7, SoundFormed, WorkFacts
    <2>2. /\ SameRun(q) /\ req'[q].pc \in Owning \cup {"ended"} /\ (req[q].late => req'[q].late)
        BY <1>3, <1>7 DEF SameRun, Owning, Working
    <2>3. req'[q].pc \notin Closing /\ req'[q].pc # "tell" /\ (req[q].pc \in Closing => req'[q].pc = "ended")
        BY <1>3, <1>7 DEF Closing
    <2> QED BY <1>3, <1>4, <1>5, <1>7, <2>1, <2>2, <2>3 DEF Works
<1> QED BY <1>4, <1>6, <1>7

LEMMA PushWorks ==
    ASSUME RequestsInv, NEW q \in Requests, Push(q)
    PROVE  Typed' /\ Formed(req'[q]) /\ Works(q)
<1>1. PICK queue, st :
        /\ queue = (IF req[q].msg = Page THEN req[q].st.queue
                    ELSE Append(req[q].st.queue, Item(req[q].msg)))
        /\ st = [req[q].st EXCEPT !.queue = queue]
    OBVIOUS
<1>2. /\ req[q].pc = "push" /\ req[q].pc \in Working /\ req[q].pc \notin Closing
      /\ UNCHANGED <<history, written, active, stream, used>>
      /\ Checkpoint(q, st, "work")
    <2>1. Checkpoint(q, [req[q].st EXCEPT !.queue = IF req[q].msg = Page THEN @
                                                    ELSE Append(@, Item(req[q].msg))], "work")
        BY DEF Push
    <2>2. req[q].pc = "push" /\ UNCHANGED <<history, written, active, stream, used>>
        BY DEF Push, At, redisVars
    <2>3. req[q].pc \in Working /\ req[q].pc \notin Closing
        BY <2>2 DEF Working, Closing
    <2>4. req[q].st \in Sessions
        BY <2>3, WorkFacts
    <2>5. st = [req[q].st EXCEPT !.queue = IF req[q].msg = Page THEN @
                                           ELSE Append(@, Item(req[q].msg))]
        BY <1>1, <2>4 DEF Sessions
    <2> QED BY <2>1, <2>2, <2>3, <2>5
<1>3. /\ st \in Sessions /\ st.run = req[q].run /\ st.queue = queue /\ st.task = req[q].st.task
      /\ req[q].msg # Page => queue # <<>> /\ Head(queue) = Item(req[q].msg) /\ st.task = {}
    <2>1. /\ req[q].st.queue \in Seq(Items) /\ req[q].st \in Sessions
          /\ req[q].msg # Page => req[q].msg \in Messages /\ Item(req[q].msg) \in Items
        BY <1>2, WorkFacts, ItemTyped DEF Sessions, RequestSet
    <2>2. ASSUME req[q].msg # Page
          PROVE  /\ queue \in Seq(Items) /\ queue # <<>> /\ Head(queue) = Item(req[q].msg)
                 /\ req[q].st.task = {}
        <3>1. req[q].st.queue = <<>> /\ req[q].st.task = {}
            BY <1>2, <2>2, WorkFacts DEF Formed
        <3>2. PICK item : item = Item(req[q].msg) /\ item \in Items
            BY <2>1, <2>2
        <3>3. queue = Append(<<>>, item)
            BY <1>1, <2>2, <3>1, <3>2
        <3> QED BY <3>1, <3>2, <3>3, EmptySeq, AppendProperties, HeadTailAppend
    <2>3. queue \in Seq(Items)
        BY <1>1, <2>1, <2>2
    <2>4. /\ st \in Sessions /\ st.run = req[q].st.run /\ st.queue = queue
          /\ st.task = req[q].st.task
        BY <1>1, <2>1, <2>3 DEF Sessions
    <2> QED BY <1>2, <2>2, <2>4, WorkFacts
<1>4. Sound(Stored(q, "work", st))
    <2>1. PICK r : r = Stored(q, "work", st)
        OBVIOUS
    <2>2. r.pc = "work" /\ r.result = "none" /\ r.st = st /\ r.run = req[q].run /\ r.msg = req[q].msg
        BY <1>2, <1>3, <2>1, StoredTyped DEF Owning, Working
    <2>3. Sound(r)
        BY <1>3, <2>2 DEF Sound, Owning, Working
    <2> QED BY <2>1, <2>3
<1>5. "work" \in Working /\ "work" \notin Closing
    BY DEF Working, Closing
<1>6. /\ used' \in [runs : Nat, pauses : Nat, events : Nat]
      /\ used'.runs = used.runs /\ UNCHANGED <<history, written, active, stream>>
    BY <1>2, WorkFacts
<1> QED BY <1>2, <1>3, <1>4, <1>5, <1>6, CheckpointWorks


LEMMA TaskKindsTyped ==
    ASSUME NEW q \in Requests
    PROVE  TaskKinds(q) \in Seq(Kinds \ {"final"}) /\ <<"chunk">> \in Seq(Kinds \ {"final"})
           /\ <<"beat">> \in Seq(Kinds \ {"final"})
<1>1. PICK S : S = Kinds \ {"final"}
    OBVIOUS
<1>2. "chunk" \in S /\ "complete" \in S /\ "beat" \in S
    BY <1>1 DEF Kinds
<1>3. <<"chunk">> \in Seq(S) /\ <<"beat">> \in Seq(S) /\ <<"complete", "chunk">> \in Seq(S)
    BY <1>2
<1>4. TaskKinds(q) \in Seq(S)
    BY <1>3 DEF TaskKinds
<1> QED BY <1>1, <1>3, <1>4

\* A request that begins to see a task, or goes on with one.
LEMMA SeesWorks ==
    ASSUME RequestsInv, NEW q \in Requests, req[q].pc = "work",
           NEW t \in Tasks, NEW pc \in {"start", "answer"},
           pc = "start" => req[q].st.queue # <<>>,
           req[q].msg # Page =>
             Done(req[q]) \/ IF req[q].msg \in Responses THEN t.by = req[q].msg
                                                         ELSE t.row = req[q].msg,
           Emit(q, TaskKinds(q), [Sees(q, t) EXCEPT !.pc = pc]),
           UNCHANGED <<rows, history, written, active, used>>
    PROVE  Typed' /\ Formed(req'[q]) /\ Works(q)
<1>1. PICK kinds, seen, next :
        /\ kinds = TaskKinds(q) /\ seen = Append(req[q].seen, t)
        /\ next = [Sees(q, t) EXCEPT !.pc = pc]
    OBVIOUS
<1>2. req[q].pc \in Working
    BY DEF Working
<1>3. seen \in Seq(Tasks) /\ ToSet(seen) = ToSet(req[q].seen) \cup {t}
    BY <1>1, <1>2, WorkFacts, ToSetAppend
<1>4. /\ next \in RequestSet /\ next.pc = pc /\ next.result = "none" /\ next.ver = req[q].ver
      /\ next.st = req[q].st /\ next.run = req[q].run /\ next.msg = req[q].msg /\ next.seen = seen
      /\ next.late = req[q].late
      /\ next.last = req[q].last /\ next.id = req[q].id /\ next.heard = req[q].heard
    <2>1. next = [req[q] EXCEPT !.seen = seen, !.pc = pc]
        BY <1>1, <1>2, WorkFacts DEF Sees, RequestSet
    <2>2. pc \in Owning
        BY DEF Owning, Working
    <2> QED BY <1>2, <1>3, <2>1, <2>2, WorkFacts DEF RequestSet
<1>5. Formed(next)
    <2>1. req[q].msg # Page => Done(next)
        BY <1>3, <1>4 DEF Done, Has
    <2>2. Sound(next)
        BY <1>2, <1>4, <2>1, WorkFacts DEF Sound, Owning, Working
    <2> QED BY <1>2, <1>4, <2>2, SoundFormed, WorkFacts
<1>6. /\ next.pc \in Owning
      /\ next.pc = "tell" <=> req[q].pc = "tell"
      /\ next.pc \in Closing <=> req[q].pc \in Closing
    BY <1>4 DEF Owning, Working, Closing
<1>7. kinds \in Seq(Kinds \ {"final"})
    BY <1>1, TaskKindsTyped
<1> QED BY <1>1, <1>2, <1>4, <1>5, <1>6, <1>7, SaysWorks, WorkFacts

LEMMA ContinueWorks ==
    ASSUME RequestsInv, NEW q \in Requests, Continue(q)
    PROVE  Typed' /\ Formed(req'[q]) /\ Works(q)
<1>1. PICK t \in req[q].st.task :
        /\ req[q].pc = "work" /\ UNCHANGED <<rows, history, written, active, used>>
        /\ Emit(q, TaskKinds(q), [Sees(q, t) EXCEPT !.pc = "answer"])
    BY DEF Continue, At, mysqlVars
<1>2. req[q].pc \in Working
    BY <1>1 DEF Working
<1>3. t \in Tasks
    BY <1>2, WorkFacts DEF Sessions
<1>4. req[q].msg # Page => Done(req[q])
    BY <1>1, <1>2, WorkFacts DEF Formed
<1> QED BY <1>1, <1>3, <1>4, SeesWorks

LEMMA TakeWorks ==
    ASSUME RequestsInv, NEW q \in Requests, Take(q)
    PROVE  Typed' /\ Formed(req'[q]) /\ Works(q)
<1>1. /\ req[q].pc = "work" /\ req[q].st.queue # <<>>
      /\ UNCHANGED <<rows, history, written, active, used>>
    BY DEF Take, At, mysqlVars
<1>2. req[q].pc \in Working /\ req[q].pc \notin Closing /\ req[q].pc # "tell"
    BY <1>1 DEF Working, Closing
<1>3. PICK head : head = Head(req[q].st.queue)
    OBVIOUS
<1>4. /\ \A t \in Taken(req[q].st).task :
           t \in Tasks /\ t.by = head.msg /\ (head.req = 0 => t.row = t.by)
      /\ head.req = 0 => Taken(req[q].st).task # {}
    BY <1>1, <1>2, <1>3, WorkFacts, TakenTyped
<1>5. ASSUME req[q].msg # Page, ~Done(req[q])
      PROVE  head.msg = req[q].msg /\ (req[q].msg \notin Responses => head.req = 0)
    <2>1. head = Item(req[q].msg)
        BY <1>1, <1>2, <1>3, <1>5, WorkFacts DEF Formed
    <2>2. req[q].msg \in Messages
        BY <1>2, <1>5, WorkFacts DEF RequestSet
    <2> QED BY <2>1, <2>2, ItemTyped
<1>6. ASSUME NEW t \in Taken(req[q].st).task,
             Emit(q, TaskKinds(q), [Sees(q, t) EXCEPT !.pc = "start"])
      PROVE  Typed' /\ Formed(req'[q]) /\ Works(q)
    <2>1. t \in Tasks
        BY <1>4
    <2>2. req[q].msg # Page =>
            Done(req[q]) \/ IF req[q].msg \in Responses THEN t.by = req[q].msg
                                                        ELSE t.row = req[q].msg
        BY <1>4, <1>5
    <2> QED BY <1>1, <1>6, <2>1, <2>2, SeesWorks
<1>7. ASSUME Taken(req[q].st).task = {}, stream' = stream,
             Become(q, [Goes(q, "start") EXCEPT !.late = @ \/ head.msg = req[q].msg])
      PROVE  Typed' /\ Formed(req'[q]) /\ Works(q)
    <2>1. PICK base, dropped, r :
            /\ base = Goes(q, "start") /\ dropped = (req[q].late \/ head.msg = req[q].msg)
            /\ r = [base EXCEPT !.late = dropped]
        OBVIOUS
    <2>2. /\ base \in RequestSet /\ base.pc = "start" /\ base.result = "none" /\ base.ver = req[q].ver
          /\ base.st = req[q].st /\ base.seen = req[q].seen /\ base.late = req[q].late
          /\ base.run = req[q].run /\ base.msg = req[q].msg /\ base.last = req[q].last
          /\ base.id = req[q].id /\ base.heard = req[q].heard
        BY <1>2, <2>1, GoesTyped, WorkFacts DEF Owning, Working
    <2>3. /\ r \in RequestSet /\ r.pc = "start" /\ r.result = "none" /\ r.ver = req[q].ver
          /\ r.st = req[q].st /\ r.seen = req[q].seen /\ r.late = dropped
          /\ r.run = req[q].run /\ r.msg = req[q].msg /\ r.last = req[q].last
          /\ r.id = req[q].id /\ r.heard = req[q].heard
        BY <1>2, <2>1, <2>2, WorkFacts DEF RequestSet
    <2>4. Become(q, r)
        <3>1. r = [base EXCEPT !.late = @ \/ head.msg = req[q].msg]
            BY <2>1, <2>2 DEF RequestSet
        <3> QED BY <1>7, <2>1, <3>1
    <2>5. Typed' /\ req'[q] = r /\ Alone(q)
        BY <1>1, <1>2, <1>7, <2>3, <2>4, OneChanges, WorkFacts
    <2>6. req[q].msg # Page => Done(r)
        <3>1. CASE Done(req[q])
            BY <2>1, <2>3, <3>1 DEF Done
        <3>2. CASE req[q].msg # Page /\ ~Done(req[q])
            <4>1. head.msg = req[q].msg /\ req[q].msg \in Responses
                BY <1>4, <1>5, <1>7, <3>2
            <4> QED BY <2>1, <2>3, <4>1 DEF Done
        <3> QED BY <3>1, <3>2
    <2>7. Formed(r)
        <3>1. Sound(r)
            BY <1>1, <1>2, <2>3, <2>6, WorkFacts DEF Sound, Owning, Working
        <3> QED BY <1>2, <2>3, <3>1, SoundFormed, WorkFacts
    <2>8. Works(q)
        <3>1. SameRun(q) /\ (req[q].late => req'[q].late)
            BY <2>1, <2>3, <2>5 DEF SameRun
        <3>2. "start" \in Owning /\ "start" \notin Closing
            BY DEF Owning, Working, Closing
        <3> QED BY <1>1, <1>2, <1>7, <2>3, <2>5, <3>1, <3>2, WorkFacts DEF Works
    <2> QED BY <2>5, <2>7, <2>8
<1> QED BY <1>3, <1>6, <1>7 DEF Take

LEMMA StartWorks ==
    ASSUME RequestsInv, NEW q \in Requests, Start(q)
    PROVE  Typed' /\ Formed(req'[q]) /\ Works(q)
<1>1. PICK st, next : st = Taken(req[q].st) /\ next = IF st.task = {} THEN "work" ELSE "answer"
    OBVIOUS
<1>2. /\ req[q].pc = "start" /\ Checkpoint(q, st, next)
      /\ UNCHANGED <<history, written, active, stream, used>>
    BY <1>1 DEF Start, At, redisVars
<1>3. /\ req[q].pc \in Working /\ req[q].pc \notin Closing /\ req[q].pc # "tell"
      /\ next \in Working /\ next \notin Closing /\ next # "tell" /\ next \in Owning
    BY <1>1, <1>2 DEF Working, Closing, Owning
<1>4. st \in Sessions /\ st.run = req[q].run
    <2>1. req[q].st \in Sessions /\ req[q].st.queue # <<>> /\ req[q].st.run = req[q].run
        BY <1>2, <1>3, WorkFacts DEF Formed
    <2> QED BY <1>1, <2>1, TakenTyped
<1>5. Sound(Stored(q, next, st))
    <2>1. PICK r : r = Stored(q, next, st)
        OBVIOUS
    <2>2. /\ r.pc = next /\ r.result = "none" /\ r.st = st /\ r.run = req[q].run /\ r.msg = req[q].msg
          /\ r.seen = req[q].seen /\ r.late = req[q].late
        BY <1>3, <1>4, <2>1, StoredTyped
    <2>3. r.msg # Page => Done(r)
        BY <1>2, <1>3, <2>2, WorkFacts DEF Formed, Done
    <2>4. Sound(r)
        BY <1>1, <1>4, <2>2, <2>3 DEF Sound, Owning, Working
    <2> QED BY <2>1, <2>4
<1>6. /\ used' \in [runs : Nat, pauses : Nat, events : Nat]
      /\ used'.runs = used.runs
    BY <1>2, <1>3, WorkFacts
<1> QED BY <1>2, <1>3, <1>4, <1>5, <1>6, CheckpointWorks

LEMMA BeatWorks ==
    ASSUME RequestsInv, NEW q \in Requests, Beat(q)
    PROVE  Typed' /\ Formed(req'[q]) /\ Works(q)
<1>1. PICK kinds, next : kinds = <<"beat">> /\ next = req[q]
    OBVIOUS
<1>2. /\ req[q].pc \in Working /\ Emit(q, kinds, next)
      /\ used' = [used EXCEPT !.events = @ + 1]
      /\ UNCHANGED <<rows, history, written, active>>
    BY <1>1 DEF Beat, Beating, mysqlVars
<1>3. next \in RequestSet /\ Formed(next) /\ next.pc \in Owning
    BY <1>1, <1>2, WorkFacts DEF Owning
<1>4. /\ used' \in [runs : Nat, pauses : Nat, events : Nat]
      /\ used'.runs = used.runs
    BY <1>2, WorkFacts
<1>5. kinds \in Seq(Kinds \ {"final"})
    BY <1>1, TaskKindsTyped
<1>6. /\ next.id = req[q].id /\ next.heard = req[q].heard /\ next.run = req[q].run
      /\ next.msg = req[q].msg /\ next.last = req[q].last /\ next.ver = req[q].ver /\ next.st = req[q].st
      /\ next.late = req[q].late
      /\ next.pc = "tell" <=> req[q].pc = "tell"
      /\ next.pc \in Closing <=> req[q].pc \in Closing
    BY <1>1
<1> QED BY <1>2, <1>3, <1>4, <1>5, <1>6, SaysWorks

\* What is known of a request whose task has an end.
LEMMA EndOfTaskFacts ==
    ASSUME RequestsInv, NEW q \in Requests, req[q].pc = "answer", NEW st \in Sessions
    PROVE  /\ req[q].pc \in Working /\ req[q].pc \notin Closing /\ req[q].pc # "tell"
           /\ "work" \in Working /\ "work" \notin Closing
           /\ st.run = req[q].run => Sound(Stored(q, "work", st))
<1>1. /\ req[q].pc \in Working /\ req[q].pc \notin Closing /\ req[q].pc # "tell"
      /\ "work" \in Working /\ "work" \notin Closing /\ "work" \in Owning
    BY DEF Working, Closing, Owning
<1>2. PICK r : r = Stored(q, "work", st)
    OBVIOUS
<1>3. /\ r.pc = "work" /\ r.result = "none" /\ r.st = st /\ r.run = req[q].run /\ r.msg = req[q].msg
      /\ r.seen = req[q].seen /\ r.late = req[q].late
    BY <1>1, <1>2, StoredTyped
<1>4. r.msg # Page => Done(r)
    BY <1>1, <1>3, WorkFacts DEF Formed, Done
<1>5. st.run = req[q].run => Sound(r)
    BY <1>3, <1>4 DEF Sound, Owning, Working
<1> QED BY <1>1, <1>2, <1>5

LEMMA AnswerWorks ==
    ASSUME RequestsInv, NEW q \in Requests, Answer(q)
    PROVE  Typed' /\ Formed(req'[q]) /\ Works(q)
<1>1. PICK t \in req[q].st.task, left \in Leaves(req[q].st) :
        /\ req[q].pc = "answer"
        /\ used' = [used EXCEPT !.events = @ + Len(left)]
        /\ Checkpoint(q, [req[q].st EXCEPT !.queue = @ \o left, !.task = {},
                                           !.told = Append(@, t)], "work")
        /\ UNCHANGED <<history, written, active, stream>>
    BY DEF Answer, At, redisVars
<1>2. req[q].pc \in Working
    BY <1>1 DEF Working
<1>3. left \in Seq(Items)
    <2>1. ASSUME NEW n \in {0} \cup {p.req : p \in req[q].st.paused},
                 left = <<[msg |-> Wake, req |-> n]>>
          PROVE  left \in Seq(Items)
        <3>1. n \in Nat
            BY <1>2, <2>1, WorkFacts DEF Sessions
        <3>2. [msg |-> Wake, req |-> n] \in Items
            BY <3>1 DEF Items, Ids
        <3> QED BY <2>1, <3>2
    <2>2. CASE left = <<>>
        BY <2>2, EmptySeq
    <2> QED BY <1>1, <2>1, <2>2 DEF Leaves
<1>4. PICK queue, told, st :
        /\ queue = req[q].st.queue \o left /\ told = Append(req[q].st.told, t)
        /\ st = [req[q].st EXCEPT !.queue = queue, !.task = {}, !.told = told]
    OBVIOUS
<1>5. queue \in Seq(Items) /\ told \in Seq(Tasks)
    <2>1. /\ req[q].st.queue \in Seq(Items) /\ req[q].st.told \in Seq(Tasks) /\ t \in Tasks
        BY <1>1, <1>2, WorkFacts DEF Sessions
    <2> QED BY <1>3, <1>4, <2>1, ConcatProperties, AppendProperties
<1>6. st \in Sessions /\ st.run = req[q].run /\ Checkpoint(q, st, "work")
    <2>1. req[q].st \in Sessions /\ req[q].st.run = req[q].run
        BY <1>1, <1>2, WorkFacts
    <2>2. st \in Sessions /\ st.run = req[q].run
        BY <1>4, <1>5, <2>1 DEF Sessions
    <2>3. st = [req[q].st EXCEPT !.queue = @ \o left, !.task = {}, !.told = Append(@, t)]
        BY <1>4, <2>1 DEF Sessions
    <2> QED BY <1>1, <2>2, <2>3
<1>7. /\ used' \in [runs : Nat, pauses : Nat, events : Nat]
      /\ used'.runs = used.runs
    <2>1. Len(left) \in Nat
        BY <1>3, LenProperties
    <2> QED BY <1>1, <1>2, <2>1, WorkFacts
<1> QED BY <1>1, <1>6, <1>7, EndOfTaskFacts, CheckpointWorks

LEMMA PauseWorks ==
    ASSUME RequestsInv, NEW q \in Requests, Pause(q)
    PROVE  Typed' /\ Formed(req'[q]) /\ Works(q)
<1>1. PICK t \in req[q].st.task :
        /\ req[q].pc = "answer"
        /\ used' = [used EXCEPT !.pauses = @ + 1, !.events = @ + 1]
        /\ Checkpoint(q, Pausing(req[q].st, t), "work")
        /\ UNCHANGED <<history, written, active, stream>>
    BY DEF Pause, At, redisVars
<1>2. req[q].pc \in Working
    BY <1>1 DEF Working
<1>3. PICK st : st = Pausing(req[q].st, t)
    OBVIOUS
<1>4. st \in Sessions /\ st.run = req[q].run
    <2>1. /\ Typed /\ req[q].st \in Sessions /\ t \in Tasks /\ req[q].st.run = req[q].run
        BY <1>1, <1>2, WorkFacts DEF Sessions
    <2> QED BY <1>3, <2>1, PausingTyped
<1>5. /\ used' \in [runs : Nat, pauses : Nat, events : Nat]
      /\ used'.runs = used.runs
    <2>1. used \in [runs : Nat, pauses : Nat, events : Nat]
        BY <1>2, WorkFacts
    <2>2. PICK pauses, events : pauses = used.pauses + 1 /\ events = used.events + 1
        OBVIOUS
    <2>3. pauses \in Nat /\ events \in Nat
        BY <2>1, <2>2
    <2>4. used' = [used EXCEPT !.pauses = pauses, !.events = events]
        BY <1>1, <2>2
    <2> QED BY <2>1, <2>3, <2>4
<1> QED BY <1>1, <1>3, <1>4, <1>5, EndOfTaskFacts, CheckpointWorks

LEMMA CloseWorks ==
    ASSUME RequestsInv, NEW q \in Requests, Close(q)
    PROVE  Typed' /\ Formed(req'[q]) /\ Works(q)
<1>1. PICK st : st = Cleaned(req[q].st)
    OBVIOUS
<1>2. /\ req[q].pc = "close" /\ Checkpoint(q, st, "tell")
      /\ UNCHANGED <<history, written, active, stream, used>>
    BY <1>1 DEF Close, At, redisVars
<1>3. /\ req[q].pc \in Working /\ req[q].pc \in Closing /\ req[q].pc # "tell"
      /\ "tell" \in Working /\ "tell" \in Closing /\ "tell" \in Owning
    BY <1>2 DEF Working, Closing, Owning
<1>4. st \in Sessions /\ st.run = 0
    BY <1>1, <1>3, WorkFacts, SessionTyped
<1>5. Sound(Stored(q, "tell", st))
    <2>1. PICK r : r = Stored(q, "tell", st)
        OBVIOUS
    <2>2. r.pc = "tell" /\ r.result = "none" /\ r.st = st
        BY <1>3, <1>4, <2>1, StoredTyped
    <2>3. Sound(r)
        BY <1>4, <2>2 DEF Sound, Owning, Working
    <2> QED BY <2>1, <2>3
<1>6. /\ used' \in [runs : Nat, pauses : Nat, events : Nat]
      /\ used'.runs = used.runs
    BY <1>2, <1>3, WorkFacts
<1> QED BY <1>2, <1>3, <1>4, <1>5, <1>6, CheckpointWorks

LEMMA SaveHistoryWorks ==
    ASSUME RequestsInv, NEW q \in Requests, SaveHistory(q)
    PROVE  Typed' /\ Formed(req'[q]) /\ Works(q)
<1>1. /\ req[q].pc = "save" \/ (req[q].pc = "work" /\ req[q].st.task = {} /\ req[q].st.queue = <<>>)
      /\ Become(q, Goes(q, "close"))
      /\ UNCHANGED <<rows, active, stream, used>>
      /\ \/ /\ req[q].seen = <<>> \/ req[q].run \in written
            /\ history' = history /\ written' = written
         \/ history' = history \o req[q].seen /\ written' = written \cup {req[q].run}
    <2>1. CASE req[q].seen = <<>> \/ Written(req[q].run)
        BY <2>1 DEF SaveHistory, Finished, At, mysqlVars, redisVars, Written
    <2>2. CASE ~(req[q].seen = <<>> \/ Written(req[q].run))
        BY <2>2 DEF SaveHistory, Finished, At, mysqlVars, redisVars, Written
    <2> QED BY <2>1, <2>2
<1>2. req[q].pc \in Working /\ req[q].pc \notin Closing /\ req[q].pc # "tell"
    BY <1>1 DEF Working, Closing
<1>3. req[q].msg # Page => Done(req[q])
    BY <1>1, <1>2, WorkFacts DEF Formed
<1>4. PICK r : r = Goes(q, "close")
    OBVIOUS
<1>5. /\ r \in RequestSet /\ r.pc = "close" /\ r.result = "none" /\ r.st = req[q].st
      /\ r.ver = req[q].ver /\ r.late = req[q].late /\ r.run = req[q].run /\ r.msg = req[q].msg /\ r.last = req[q].last
      /\ r.id = req[q].id /\ r.heard = req[q].heard
    BY <1>2, <1>4, GoesTyped, WorkFacts DEF Owning, Working
<1>6. req'[q] = r /\ Alone(q) /\ req' \in [Requests -> RequestSet]
    BY <1>1, <1>2, <1>4, <1>5, BecomeOne, WorkFacts
<1>7. /\ history' \in Seq(Tasks) /\ written' \subseteq Nat /\ written' \subseteq written \cup {req[q].run}
      /\ ToSet(history) \subseteq ToSet(history')
      /\ req[q].msg # Page => Has(req[q].msg, history') \/ (req[q].msg \in Responses /\ req[q].late)
    <2>1. history \in Seq(Tasks) /\ written \subseteq Nat /\ req[q].seen \in Seq(Tasks) /\ req[q].run \in Nat
        BY <1>2, WorkFacts DEF Typed
    <2>2. CASE history' = history \o req[q].seen /\ written' = written \cup {req[q].run}
        <3>1. /\ history \o req[q].seen \in Seq(Tasks)
              /\ ToSet(history \o req[q].seen) = ToSet(history) \cup ToSet(req[q].seen)
            BY <2>1, ToSetConcat
        <3>2. history' \in Seq(Tasks) /\ ToSet(history') = ToSet(history) \cup ToSet(req[q].seen)
            BY <2>2, <3>1
        <3> QED BY <1>3, <2>1, <2>2, <3>2 DEF Done, Has
    <2>3. CASE /\ req[q].seen = <<>> \/ req[q].run \in written
               /\ history' = history /\ written' = written
        <3>1. req[q].run \notin written
            BY <1>2 DEF RequestsInv, AnswersInv
        <3>2. req[q].seen = <<>>
            BY <2>3, <3>1
        <3>3. ToSet(req[q].seen) = {}
            BY <3>2 DEF ToSet
        <3> QED BY <1>3, <2>1, <2>3, <3>3 DEF Done, Has
    <2> QED BY <1>1, <2>2, <2>3
<1>8. Typed'
    <2>1. HasNewest'
        BY <1>1, <1>2, WorkFacts DEF Typed, HasNewest
    <2> QED BY <1>1, <1>2, <1>6, <1>7, <2>1, WorkFacts DEF Typed
<1>9. Formed(r)
    <2>1. Sound(r)
        BY <1>2, <1>5, WorkFacts DEF Sound, Owning, Working
    <2> QED BY <1>2, <1>5, <2>1, SoundFormed, WorkFacts
<1>10. Works(q)
    <2>1. SameRun(q) /\ req'[q].st.run = req[q].run
        BY <1>2, <1>5, <1>6, WorkFacts DEF SameRun
    <2>2. "close" \in Owning
        BY DEF Owning, Working
    <2>3. req[q].msg # Page => Settled(req[q].run, req[q].msg, history', req')
        BY <1>5, <1>6, <1>7 DEF Settled, LateIn
    <2> QED BY <1>1, <1>2, <1>5, <1>6, <1>7, <2>1, <2>2, <2>3 DEF Works
<1> QED BY <1>6, <1>8, <1>9, <1>10


LEMMA RollbackWorks ==
    ASSUME RequestsInv, NEW q \in Requests, Rollback(q)
    PROVE  Typed' /\ Formed(req'[q]) /\ Works(q)
<1>0. PICK task \in req[q].st.task :
        LET st    == Pausing(req[q].st, task)
            kinds == IF req[q].seen # <<>> /\ Last(req[q].seen) = task
                     THEN <<"chunk">> ELSE TaskKinds(q)
        IN \/ CanSave(q) /\ rows' = Saved(q, st)
              /\ Emit(q, kinds, [Goes(q, "save") EXCEPT !.ver = Version(q), !.st = st])
           \/ ~CanSave(q) /\ UNCHANGED rows
              /\ Emit(q, kinds, Ends(q, "error"))
    BY DEF Rollback
<1>1. PICK st, kinds, set :
        /\ st = Pausing(req[q].st, task) /\ set = Kinds \ {"final"}
        /\ kinds = (IF req[q].seen # <<>> /\ Last(req[q].seen) = task
                    THEN <<"chunk">> ELSE TaskKinds(q))
    OBVIOUS
<1>2. /\ req[q].pc = "rollback" /\ UNCHANGED <<history, written, active>>
      /\ used' = [used EXCEPT !.pauses = @ + 1]
      /\ \/ /\ CanSave(q) /\ rows' = Saved(q, st)
            /\ Emit(q, kinds, Stored(q, "save", st))
         \/ rows' = rows /\ Emit(q, kinds, Ends(q, "error"))
    BY <1>0, <1>1 DEF Rollback, At, Stored
<1>3. req[q].pc \in Working /\ req[q].pc \notin Closing /\ req[q].pc # "tell"
    BY <1>2 DEF Working, Closing
<1>4. /\ st \in Sessions /\ st.run = req[q].run
      /\ used' \in [runs : Nat, pauses : Nat, events : Nat] /\ used'.runs = used.runs
    <2>1. /\ Typed /\ req[q].st \in Sessions /\ task \in Tasks /\ req[q].st.run = req[q].run
        BY <1>2, <1>3, WorkFacts DEF Sessions
    <2>2. st \in Sessions /\ st.run = req[q].run
        BY <1>1, <2>1, PausingTyped
    <2> QED BY <1>2, <1>3, <2>2, WorkFacts
<1>5. set \in SUBSET Kinds /\ kinds \in Seq(set)
    <2>1. kinds = <<"chunk">> \/ kinds = TaskKinds(q)
        BY <1>1
    <2> QED BY <1>1, <2>1, TaskKindsTyped
<1>6. PICK next, v, base :
        /\ v = Version(q) /\ base = Goes(q, "save")
        /\ \/ next = [base EXCEPT !.ver = v, !.st = st] /\ rows' = Saved(q, st) /\ CanSave(q)
           \/ next = Ends(q, "error") /\ rows' = rows
        /\ Emit(q, kinds, next)
    BY <1>2 DEF Stored
<1>7. /\ next \in RequestSet /\ Sound(next) /\ next.st.run \in {0, req[q].run} /\ next.result # "ok"
      /\ next.run = req[q].run /\ next.msg = req[q].msg /\ next.last = req[q].last
      /\ next.id = req[q].id /\ next.heard = req[q].heard /\ next.late = req[q].late
      /\ \/ next.pc = "save" /\ next.ver = v /\ rows' = Saved(q, st) /\ CanSave(q)
         \/ next.pc = "ended" /\ rows' = rows
    <2>1. CASE next = Ends(q, "error") /\ rows' = rows
        BY <1>3, <2>1, EndsSound DEF Results
    <2>2. CASE next = [base EXCEPT !.ver = v, !.st = st] /\ rows' = Saved(q, st) /\ CanSave(q)
        <3>1. "save" \in Owning /\ next = Stored(q, "save", st)
            BY <1>6, <2>2 DEF Owning, Working, Stored
        <3>2. /\ next \in RequestSet /\ next.pc = "save" /\ next.result = "none" /\ next.seen = req[q].seen
              /\ next.late = req[q].late
              /\ next.run = req[q].run /\ next.msg = req[q].msg /\ next.last = req[q].last
              /\ next.id = req[q].id /\ next.heard = req[q].heard /\ next.st = st /\ next.ver = v
            BY <1>3, <1>4, <1>6, <3>1, StoredTyped
        <3>3. req[q].msg # Page => Done(req[q])
            BY <1>2, <1>3, WorkFacts DEF Formed
        <3>4. req[q].msg # Page => Done(next)
            BY <3>2, <3>3 DEF Done
        <3>5. Sound(next)
            BY <1>4, <3>2, <3>4 DEF Sound, Owning, Working
        <3> QED BY <1>4, <2>2, <3>2, <3>5
    <2> QED BY <1>6, <2>1, <2>2
<1>8. /\ stream' \in [Runs -> Seq(Records)] /\ req' \in [Requests -> RequestSet]
      /\ Alone(q) /\ Tells(q, set)
      /\ req'[q].id = req[q].id + Len(kinds)
      /\ Len(req'[q].heard) = req'[q].id
      /\ \A k \in DOMAIN req'[q].heard : req'[q].heard[k] = k
      /\ Told(req'[q], next)
    BY <1>3, <1>5, <1>6, <1>7, EmitTells
<1>9. PICK r : r = req'[q]
    OBVIOUS
<1>10. /\ r \in RequestSet /\ r.pc = next.pc /\ r.run = next.run /\ r.msg = next.msg /\ r.last = next.last
       /\ r.ver = next.ver /\ r.st = next.st /\ r.seen = next.seen /\ r.late = next.late /\ r.result = next.result
    BY <1>7, <1>8, <1>9 DEF RequestSet, Told
<1>11. rows' \subseteq Rows /\ HasNewest' /\ ((next.pc = "ended" /\ rows' = rows) \/ Saves(q, req[q].run))
    <2>1. CASE next.pc = "ended" /\ rows' = rows
        BY <1>3, <2>1, WorkFacts DEF Typed, HasNewest
    <2>2. CASE next.pc = "save" /\ next.ver = v /\ rows' = Saved(q, st) /\ CanSave(q)
        <3>1. req'[q].ver = Version(q)
            BY <1>6, <1>9, <1>10, <2>2
        <3> QED BY <1>3, <1>4, <2>2, <3>1, SavesRow, WorkFacts
    <2> QED BY <1>7, <2>1, <2>2
<1>12. Typed'
    BY <1>2, <1>3, <1>4, <1>8, <1>11, WorkFacts DEF Typed
<1>13. Formed(r)
    <2>1. Sound(r)
        BY <1>7, <1>10 DEF Sound, Done
    <2> QED BY <1>3, <1>7, <1>8, <1>9, <1>10, <2>1, SoundFormed
<1>14. Works(q)
    <2>1. SameRun(q) /\ r.pc \in {"save", "ended"} /\ r.late = req[q].late
        BY <1>7, <1>9, <1>10 DEF SameRun
    <2>2. /\ {"save", "ended"} \subseteq Owning \cup {"ended"}
          /\ {"save", "ended"} \cap Closing = {}
        BY DEF Owning, Working, Closing
    <2>3. \/ rows' = rows /\ r.pc = "ended"
          \/ Saves(q, req[q].run)
        BY <1>10, <1>11
    <2> QED BY <1>1, <1>2, <1>3, <1>4, <1>7, <1>8, <1>9, <1>10, <2>1, <2>2, <2>3 DEF Works
<1> QED BY <1>9, <1>12, <1>13, <1>14

LEMMA TellWorks ==
    ASSUME RequestsInv, NEW q \in Requests, Tell(q)
    PROVE  Typed' /\ Formed(req'[q]) /\ Works(q)
<1>1. PICK kinds, next, set : kinds = <<"final">> /\ next = Goes(q, "drop") /\ set = {"final"}
    OBVIOUS
<1>2. /\ req[q].pc = "tell" /\ Emit(q, kinds, next)
      /\ UNCHANGED <<rows, history, written, active, used>>
    BY <1>1 DEF Tell, At, mysqlVars
<1>3. req[q].pc \in Working /\ req[q].pc \in Closing
    BY <1>2 DEF Working, Closing
<1>4. set \in SUBSET Kinds /\ kinds \in Seq(set) /\ Len(kinds) = 1
    <2>1. "final" \in set /\ set \subseteq Kinds
        BY <1>1 DEF Kinds
    <2>2. kinds = <<"final">>
        BY <1>1
    <2> QED BY <2>1, <2>2
<1>5. /\ next \in RequestSet /\ next.pc = "drop" /\ next.result = "none" /\ next.ver = req[q].ver
      /\ next.st = req[q].st /\ next.run = req[q].run /\ next.msg = req[q].msg
      /\ next.last = req[q].last /\ next.late = req[q].late /\ next.id = req[q].id /\ next.heard = req[q].heard
    BY <1>1, <1>3, GoesTyped, WorkFacts DEF Owning, Working
<1>6. /\ stream' \in [Runs -> Seq(Records)] /\ req' \in [Requests -> RequestSet]
      /\ Alone(q) /\ Tells(q, set)
      /\ req'[q].id = req[q].id + Len(kinds)
      /\ Len(req'[q].heard) = req'[q].id
      /\ \A k \in DOMAIN req'[q].heard : req'[q].heard[k] = k
      /\ Told(req'[q], next)
    BY <1>2, <1>3, <1>4, <1>5, EmitTells
<1>7. PICK r : r = req'[q]
    OBVIOUS
<1>8. /\ r \in RequestSet /\ r.pc = "drop" /\ r.run = req[q].run /\ r.msg = req[q].msg
      /\ r.last = req[q].last /\ r.late = req[q].late /\ r.ver = req[q].ver /\ r.st = req[q].st /\ r.result = "none"
    BY <1>5, <1>6, <1>7 DEF RequestSet, Told
<1>9. Typed'
    <2>1. HasNewest'
        BY <1>2, <1>3, WorkFacts DEF Typed, HasNewest
    <2> QED BY <1>2, <1>3, <1>6, <2>1, WorkFacts DEF Typed
<1>10. Formed(r)
    <2>1. Sound(r)
        BY <1>8 DEF Sound, Owning, Working
    <2> QED BY <1>3, <1>6, <1>7, <1>8, <2>1, SoundFormed
<1>11. Works(q)
    <2>1. SameRun(q) /\ r.late = req[q].late /\ r.st.run \in {0, req[q].run}
        BY <1>3, <1>7, <1>8, WorkFacts DEF SameRun
    <2>2. "drop" \in Owning /\ "drop" \in Closing
        BY DEF Owning, Closing
    <2> QED BY <1>1, <1>2, <1>3, <1>4, <1>6, <1>7, <1>8, <2>1, <2>2 DEF Works
<1> QED BY <1>7, <1>9, <1>10, <1>11

LEMMA DropQuits ==
    ASSUME RequestsInv, NEW q \in Requests, req[q].pc = "drop",
           NEW result \in Results, Become(q, Ends(q, result)), active' \subseteq active,
           UNCHANGED <<rows, history, written, stream>>,
           used' \in [runs : Nat, pauses : Nat, events : Nat],
           used'.runs = used.runs
    PROVE  Typed' /\ Formed(req'[q]) /\ Quits(q)
<1>1. Typed /\ Formed(req[q])
    BY DEF RequestsInv
<1>2. PICK r : r = Ends(q, result)
    OBVIOUS
<1>3. /\ r \in RequestSet /\ r.pc = "ended" /\ r.result = result /\ r.st.run = 0
      /\ r.run = req[q].run /\ r.msg = req[q].msg /\ r.last = req[q].last
      /\ r.id = req[q].id /\ r.heard = req[q].heard /\ r.late = req[q].late
    BY <1>1, <1>2, EndsTyped, SessionTyped
<1>4. req'[q] = r /\ Alone(q) /\ req' \in [Requests -> RequestSet]
    BY <1>1, <1>2, <1>3, BecomeOne
<1>5. Typed'
    <2>1. HasNewest' /\ rows' \subseteq Rows /\ active' \subseteq [run : Nat, msg : Messages]
        BY <1>1 DEF Typed, HasNewest
    <2> QED BY <1>1, <1>4, <2>1, RestTyped
<1>6. Formed(r)
    BY <1>1, <1>3 DEF Formed, Owning, Working, Early
<1>7. Quits(q)
    BY <1>3, <1>4 DEF Quits, SameRun
<1> QED BY <1>4, <1>5, <1>6, <1>7

LEMMA FaultWay ==
    ASSUME RequestsInv, NEW q \in Requests, Fault(q)
    PROVE  Typed' /\ Formed(req'[q]) /\ (Waits(q) \/ Works(q) \/ Quits(q))
<1>1. /\ req[q].pc \notin {"none", "ended"}
      /\ used' = [used EXCEPT !.events = @ + 1]
      /\ Become(q, Failed(q))
      /\ UNCHANGED <<rows, history, written, active, stream>>
    BY DEF Fault, Served, At, mysqlVars, redisVars
<1>2. /\ used' \in [runs : Nat, pauses : Nat, events : Nat]
      /\ used'.runs = used.runs
    BY <1>1, EarlyFacts
<1>3. CASE req[q].pc \in Early \cup {"follow"}
    <2>1. PICK r : r = Ends(q, "error")
        OBVIOUS
    <2>2. Become(q, r)
        BY <1>1, <1>3, <2>1 DEF Early, Failed
    <2>3. /\ r \in RequestSet /\ r.pc = "ended" /\ r.result = "error" /\ r.st.run = 0
          /\ r.run = req[q].run /\ r.msg = req[q].msg /\ r.last = req[q].last
          /\ r.id = 0 /\ r.heard = req[q].heard
        BY <1>3, <2>1, EndsTyped, SessionTyped, EarlyFacts DEF Results
    <2>4. Typed' /\ req'[q] = r /\ Alone(q)
        BY <1>1, <1>2, <2>2, <2>3, OneChanges
    <2>5. Formed(r)
        BY <2>3, EarlyFacts DEF Formed, Owning, Working, Early
    <2>6. Waits(q)
        BY <1>1, <1>2, <1>3, <2>3, <2>4, EarlyFacts DEF Waits, Follows
    <2> QED BY <2>4, <2>5, <2>6
<1>4. CASE req[q].pc \in Working
    <2>1. PICK r : r = Failed(q)
        OBVIOUS
    <2>2. /\ r \in RequestSet /\ Sound(r) /\ r.result # "ok"
          /\ r.st.run \in {0, req[q].run} /\ r.late = req[q].late
          /\ r.run = req[q].run /\ r.msg = req[q].msg /\ r.last = req[q].last
          /\ r.id = req[q].id /\ r.heard = req[q].heard /\ r.pc \in {"ended", "rollback"}
          /\ r.pc = "rollback" => r.ver = req[q].ver /\ req[q].pc \notin Closing
        BY <1>4, <2>1, FailedSound
    <2>3. Typed' /\ req'[q] = r /\ Alone(q)
        BY <1>1, <1>2, <2>1, <2>2, OneChanges
    <2>4. Formed(r)
        BY <1>4, <2>2, SoundFormed, WorkFacts
    <2>5. Works(q)
        <3>1. SameRun(q) /\ r.pc \in {"ended", "rollback"}
            BY <2>2, <2>3 DEF SameRun
        <3>2. /\ "rollback" \in Owning /\ {"ended", "rollback"} \cap Closing = {}
              /\ r.pc # "tell"
            BY <3>1 DEF Owning, Working, Closing
        <3> QED BY <1>1, <1>2, <1>4, <2>2, <2>3, <3>1, <3>2 DEF Works
    <2> QED BY <2>3, <2>4, <2>5
<1>5. CASE req[q].pc = "drop"
    <2>1. Become(q, Ends(q, "error")) /\ "error" \in Results
        BY <1>1, <1>5 DEF Results, Failed
    <2> QED BY <1>1, <1>2, <1>5, <2>1, DropQuits
<1>6. req[q].pc \in Early \cup {"follow", "ended"} \cup Owning
    BY EarlyFacts DEF RequestSet
<1> QED BY <1>1, <1>3, <1>4, <1>5, <1>6 DEF Owning

LEMMA CrashStops ==
    ASSUME RequestsInv, Crash
    PROVE  Typed' /\ Stops /\ \A q \in Requests : Formed(req'[q])
<1>1. /\ used' = [used EXCEPT !.events = @ + 1]
      /\ req' = [q \in Requests |-> IF q \in Served THEN Ends(q, "dead") ELSE req[q]]
      /\ UNCHANGED <<rows, history, written, active, stream>>
    BY DEF Crash, mysqlVars, redisVars
<1>2. Typed
    BY DEF RequestsInv
<1>3. /\ used' \in [runs : Nat, pauses : Nat, events : Nat]
      /\ used'.runs = used.runs
    BY <1>1, <1>2 DEF Typed
<1>4. ASSUME NEW q \in Requests
      PROVE  /\ req'[q] \in RequestSet /\ Formed(req'[q])
             /\ \/ req'[q] = req[q]
                \/ /\ SameRun(q) /\ req'[q].pc = "ended" /\ req'[q].st.run = 0
                   /\ req'[q].id = req[q].id /\ req'[q].result = "dead" /\ req'[q].late = req[q].late
    <2>1. CASE q \notin Served
        BY <1>1, <1>2, <2>1 DEF RequestsInv, Typed
    <2>2. CASE q \in Served
        <3>1. PICK r : r = Ends(q, "dead") /\ req'[q] = r
            BY <1>1, <2>2
        <3>2. /\ r \in RequestSet /\ r.pc = "ended" /\ r.result = "dead" /\ r.st.run = 0
              /\ r.run = req[q].run /\ r.msg = req[q].msg /\ r.last = req[q].last
              /\ r.id = req[q].id /\ r.heard = req[q].heard /\ r.late = req[q].late
            BY <1>2, <3>1, EndsTyped, SessionTyped DEF Results
        <3>3. Formed(req[q]) /\ req[q].pc # "none" /\ req[q].id \in Nat
            BY <1>2, <2>2, FieldsTyped DEF RequestsInv, Served, At
        <3>4. Formed(r)
            BY <3>2, <3>3 DEF Formed, Owning, Working, Early
        <3> QED BY <3>1, <3>2, <3>4 DEF SameRun
    <2> QED BY <2>1, <2>2
<1>5. req' \in [Requests -> RequestSet]
    BY <1>1, <1>4
<1>6. Typed'
    BY <1>1, <1>2, <1>3, <1>5, RequestsTyped
<1> QED BY <1>1, <1>3, <1>4, <1>6 DEF Stops

LEMMA ExpireFades ==
    ASSUME RequestsInv, Expire \/ ExpireIndex
    PROVE  Typed' /\ Fades
<1>1. Typed
    BY DEF RequestsInv
<1>2. CASE Expire
    <2>1. PICK run \in Runs :
            /\ ~Writes(run) /\ stream' = [stream EXCEPT ![run] = <<>>]
            /\ used' = [used EXCEPT !.events = @ + 1]
            /\ UNCHANGED <<rows, history, written, active, req>>
        BY <1>2 DEF Expire, mysqlVars
    <2>2. \A q \in Requests : req[q].run = run => req[q].pc \notin Working
        BY <2>1 DEF Writes
    <2>3. stream' \in [Runs -> Seq(Records)]
        BY <1>1, <2>1, EmptySeq DEF Typed
    <2>4. Typed'
        <3>1. used' \in [runs : Nat, pauses : Nat, events : Nat] /\ used'.runs = used.runs
            <4>1. used \in [runs : Nat, pauses : Nat, events : Nat]
                BY <1>1 DEF Typed
            <4>2. used' = [used EXCEPT !.events = @ + 1]
                BY <2>1
            <4> QED BY <4>1, <4>2
        <3> QED BY <1>1, <2>1, <2>3, <3>1 DEF Typed, HasNewest
    <2>5. Fades
        BY <1>1, <2>1, <2>2 DEF Fades, Typed
    <2> QED BY <2>4, <2>5
<1>3. CASE ExpireIndex
    <2>1. /\ active' = {} /\ used' = [used EXCEPT !.events = @ + 1]
          /\ UNCHANGED <<rows, history, written, stream, req>>
        BY <1>3 DEF ExpireIndex, mysqlVars
    <2>2. /\ used' \in [runs : Nat, pauses : Nat, events : Nat]
          /\ used'.runs = used.runs
        BY <1>1, <2>1 DEF Typed
    <2>3. Typed'
        BY <1>1, <2>1, <2>2 DEF Typed, HasNewest
    <2>4. Fades
        BY <2>1, <2>2 DEF Fades
    <2> QED BY <2>3, <2>4
<1> QED BY <1>2, <1>3


-----------------------------------------------------------------------------
(* The theorems.                                                            *)

LEMMA RequestsInit == Init => RequestsInv
<1> SUFFICES ASSUME Init PROVE RequestsInv
    OBVIOUS
<1>1. /\ rows = {} /\ history = <<>> /\ written = {} /\ active = {}
      /\ stream = [run \in Runs |-> <<>>] /\ req = [q \in Requests |-> NewRequest]
      /\ used = [runs |-> 0, pauses |-> 0, events |-> 0]
    BY DEF Init
<1>2. PICK r : r = NewRequest
    OBVIOUS
<1>3. /\ r \in RequestSet /\ r.pc = "none" /\ r.msg = Page /\ r.last = 0 /\ r.run = 0 /\ r.id = 0
      /\ r.seen = <<>> /\ ~r.late /\ r.heard = <<>> /\ r.result = "none" /\ r.st.run = 0
    <2>1. Session \in Sessions /\ Session.run = 0
        BY SessionTyped
    <2> QED BY <1>2, <2>1, EmptySeq DEF NewRequest, RequestSet, Early, Results
<1>4. \A q \in Requests : req[q] = r
    BY <1>1, <1>2
<1>5. Typed
    BY <1>1, <1>2, <1>3, EmptySeq DEF Typed, HasNewest
<1>6. Formed(r)
    BY <1>3 DEF Formed, Early, Owning, Working
<1>7. ~Owner(r) /\ r.pc \notin Working /\ r.pc \notin Closing /\ ~Follows(r) /\ r.result # "ok"
    BY <1>3 DEF Owner, Owning, Working, Closing, Follows
<1>8. RunsInv
    <2>1. used.runs = 0 /\ Cardinality(Spent) \in Nat
        BY <1>1, SpentCounts
    <2> QED BY <1>1, <1>3, <1>4, <2>1 DEF RunsInv
<1>9. OwnersInv /\ RowsInv /\ OkInv
    BY <1>1, <1>4, <1>7 DEF OwnersInv, RowsInv, OkInv
<1>10. StreamsInv /\ FinalInv
    BY <1>1, <1>4, <1>7 DEF StreamsInv, FinalInv
<1>11. AnswersInv
    BY <1>1, <1>4, <1>7 DEF AnswersInv
<1> QED BY <1>4, <1>5, <1>6, <1>8, <1>9, <1>10, <1>11 DEF RequestsInv

\* Every step goes one of the ways.
LEMMA NextWay ==
    ASSUME RequestsInv, Next
    PROVE  Typed' /\ Way /\ \A q \in Requests : Formed(req'[q])
<1>1. ASSUME NEW q \in Requests, Typed', Formed(req'[q]),
             Waits(q) \/ Begins(q) \/ Works(q) \/ Quits(q)
      PROVE  Typed' /\ Way /\ \A p \in Requests : Formed(req'[p])
    <2>1. Alone(q) /\ Way
        BY <1>1 DEF Waits, Begins, Works, Quits, Way
    <2> QED BY <1>1, <2>1 DEF Alone, RequestsInv
<1>2. ASSUME NEW q \in Requests, Arrive(q) PROVE Typed' /\ Way /\ \A p \in Requests : Formed(req'[p])
    BY <1>1, <1>2, ArriveWaits
<1>3. ASSUME NEW q \in Requests, Load(q) PROVE Typed' /\ Way /\ \A p \in Requests : Formed(req'[p])
    BY <1>1, <1>3, LoadWaits
<1>4. ASSUME NEW q \in Requests, Find(q) PROVE Typed' /\ Way /\ \A p \in Requests : Formed(req'[p])
    BY <1>1, <1>4, FindWaits
<1>5. ASSUME NEW q \in Requests, Check(q) PROVE Typed' /\ Way /\ \A p \in Requests : Formed(req'[p])
    BY <1>1, <1>5, CheckWaits
<1>6. ASSUME NEW q \in Requests, Lookup(q) PROVE Typed' /\ Way /\ \A p \in Requests : Formed(req'[p])
    BY <1>1, <1>6, LookupWaits
<1>7. ASSUME NEW q \in Requests, Begin(q) PROVE Typed' /\ Way /\ \A p \in Requests : Formed(req'[p])
    BY <1>1, <1>7, BeginBegins
<1>8. ASSUME NEW q \in Requests, Follow(q) PROVE Typed' /\ Way /\ \A p \in Requests : Formed(req'[p])
    BY <1>1, <1>8, FollowWaits
<1>9. ASSUME NEW q \in Requests, TimeOut(q) PROVE Typed' /\ Way /\ \A p \in Requests : Formed(req'[p])
    BY <1>1, <1>9, TimeOutWaits
<1>10. ASSUME NEW q \in Requests, Replay(q) PROVE Typed' /\ Way /\ \A p \in Requests : Formed(req'[p])
    BY <1>1, <1>10, ReplayWorks
<1>11. ASSUME NEW q \in Requests, Push(q) PROVE Typed' /\ Way /\ \A p \in Requests : Formed(req'[p])
    BY <1>1, <1>11, PushWorks
<1>12. ASSUME NEW q \in Requests, Continue(q) PROVE Typed' /\ Way /\ \A p \in Requests : Formed(req'[p])
    BY <1>1, <1>12, ContinueWorks
<1>13. ASSUME NEW q \in Requests, Take(q) PROVE Typed' /\ Way /\ \A p \in Requests : Formed(req'[p])
    BY <1>1, <1>13, TakeWorks
<1>14. ASSUME NEW q \in Requests, Start(q) PROVE Typed' /\ Way /\ \A p \in Requests : Formed(req'[p])
    BY <1>1, <1>14, StartWorks
<1>15. ASSUME NEW q \in Requests, Answer(q) PROVE Typed' /\ Way /\ \A p \in Requests : Formed(req'[p])
    BY <1>1, <1>15, AnswerWorks
<1>16. ASSUME NEW q \in Requests, Pause(q) PROVE Typed' /\ Way /\ \A p \in Requests : Formed(req'[p])
    BY <1>1, <1>16, PauseWorks
<1>17. ASSUME NEW q \in Requests, Rollback(q) PROVE Typed' /\ Way /\ \A p \in Requests : Formed(req'[p])
    BY <1>1, <1>17, RollbackWorks
<1>18. ASSUME NEW q \in Requests, SaveHistory(q) PROVE Typed' /\ Way /\ \A p \in Requests : Formed(req'[p])
    BY <1>1, <1>18, SaveHistoryWorks
<1>19. ASSUME NEW q \in Requests, Close(q) PROVE Typed' /\ Way /\ \A p \in Requests : Formed(req'[p])
    BY <1>1, <1>19, CloseWorks
<1>20. ASSUME NEW q \in Requests, Tell(q) PROVE Typed' /\ Way /\ \A p \in Requests : Formed(req'[p])
    BY <1>1, <1>20, TellWorks
<1>21. ASSUME NEW q \in Requests, Drop(q) PROVE Typed' /\ Way /\ \A p \in Requests : Formed(req'[p])
    <2>1. /\ req[q].pc = "drop" /\ Become(q, Ends(q, "ok")) /\ active' \subseteq active
          /\ UNCHANGED <<rows, history, written, stream, used>>
        BY <1>21 DEF Drop, At, mysqlVars
    <2>2. /\ used' \in [runs : Nat, pauses : Nat, events : Nat]
          /\ used'.runs = used.runs /\ "ok" \in Results
        BY <2>1 DEF RequestsInv, Typed, Results
    <2>3. Typed' /\ Formed(req'[q]) /\ Quits(q)
        BY <2>1, <2>2, DropQuits
    <2> QED BY <1>1, <2>3
<1>22. ASSUME NEW q \in Requests, Beat(q) PROVE Typed' /\ Way /\ \A p \in Requests : Formed(req'[p])
    BY <1>1, <1>22, BeatWorks
<1>23. ASSUME NEW q \in Requests, Fault(q) PROVE Typed' /\ Way /\ \A p \in Requests : Formed(req'[p])
    BY <1>1, <1>23, FaultWay
<1>24. CASE Crash
    BY <1>24, CrashStops DEF Way
<1>25. CASE Expire \/ ExpireIndex
    <2>1. Typed' /\ Fades
        BY <1>25, ExpireFades
    <2>2. req' = req
        BY <2>1 DEF Fades
    <2> QED BY <2>1, <2>2 DEF Way, RequestsInv
<1> QED BY <1>2, <1>3, <1>4, <1>5, <1>6, <1>7, <1>8, <1>9, <1>10, <1>11, <1>12, <1>13,
           <1>14, <1>15, <1>16, <1>17, <1>18, <1>19, <1>20, <1>21, <1>22, <1>23, <1>24,
           <1>25
           DEF Next, Serve, Run

\* The invariant of the requests: a run has one owner, the number of a record is its
\* place, the owner holds the rows of its run, and whoever follows a run for a message
\* follows the run of that message.
THEOREM RequestsInvariant == Spec => []RequestsInv
<1>1. Init => RequestsInv
    BY RequestsInit
<1>2. RequestsInv /\ [Next]_vars => RequestsInv'
    <2> SUFFICES ASSUME RequestsInv, [Next]_vars PROVE RequestsInv'
        OBVIOUS
    <2>1. CASE Next
        BY <2>1, NextWay, WayKeeps
    <2>2. CASE UNCHANGED vars
        <3>1. UNCHANGED <<rows, history, written, active, stream, req, used>>
            BY <2>2 DEF vars
        <3>2. Typed' /\ \A q \in Requests : Formed(req'[q])
            BY <3>1 DEF RequestsInv, Typed, HasNewest
        <3>3. Way
            BY <3>1, Zenon DEF Way, Fades
        <3> QED BY <3>2, <3>3, WayKeeps
    <2> QED BY <2>1, <2>2
<1> QED BY <1>1, <1>2, PTL DEF Spec

\* Whoever is told that an input is answered finds it in the history, whether its
\* request ran the input or followed the run of another, and whatever crashed, failed
\* or was forgotten by Redis in between; a response that is said to be answered is in
\* the row of the task it woke, unless its run found no task that waited for it.
THEOREM AnsweredSaved == Spec => []AnsweredIsSaved
<1>1. RequestsInv => AnsweredIsSaved
    BY DEF RequestsInv, OkInv, Settled, Has, ToSet, LateIn, Known, AnsweredIsSaved
<1> QED BY <1>1, RequestsInvariant, PTL

\* A client hears the records of a run in their order, each of them once and none
\* missing, and is told that the response ended when it has heard the last one.
THEOREM HeardAll == Spec => []HeardWhole
<1>1. RequestsInv => HeardWhole
    BY DEF RequestsInv, Formed, OkInv, Owner, Heard, HeardWhole
<1> QED BY <1>1, RequestsInvariant, PTL

\* A run that said that it is complete says nothing more, and no stored session names
\* it, so a page that loads does not run it again.
THEOREM CompleteClosed == Spec => []CompleteIsClosed
<1>1. RequestsInv => CompleteIsClosed
    BY DEF RequestsInv, FinalInv, CompleteIsClosed
<1> QED BY <1>1, RequestsInvariant, PTL
=============================================================================
