--------------------------- MODULE TaskEventProofs ---------------------------
(***************************************************************************)
(* What is saved of a task can be told again, and what a run told of it is *)
(* in order and, when it ends, whole: for any number of runs, inputs, calls*)
(* and faults.                                                              *)
(*                                                                         *)
(* The invariant is about a session s and what was heard, h, between two   *)
(* chains (RunInv).  While a chain is open, it holds of both without the   *)
(* STARTED event that opened it (OpenInv), so that a step which closes the *)
(* chain is one that tells all of it.  After an exception only the order of*)
(* what was heard remains (InOrder).                                        *)
(***************************************************************************)
EXTENDS TaskEvents, SelectionProofs

-----------------------------------------------------------------------------
(* The inductive invariant.                                                 *)

Tasks ==
    [id : Nat, left : {"message", "build", "tool", "answer", "none", "switch"},
     paused : BOOLEAN, asked : {"none", "tool", "error"}, answered : BOOLEAN,
     events : Seq(Events), replayed : BOOLEAN]
Dones    == [id : Nat, events : Seq(Events), replayed : BOOLEAN]
Queued   == [kind : {"user", "response"}, of : Nat]
Sessions == [tasks : Seq(Tasks), done : Seq(Dones), queue : Seq(Queued)]

Rank(e) == IF e.phase = "started" THEN 1 ELSE IF e.phase = "end" THEN 2 ELSE 3

\* The pairs of events of which the first may be told before the second.
Timely ==
    {p \in Events \X Events :
        \/ p[1].task # p[2].task
        \/ p[1].id < p[2].id
        \/ p[1].id = p[2].id /\ p[1].kind = p[2].kind /\ Rank(p[1]) < Rank(p[2])}

\* The pairs of tasks, or of finished ones, that are not the same.
DifferentTasks == {p \in Tasks \X Tasks : p[1].id # p[2].id}
DifferentDones == {p \in Dones \X Dones : p[1].id # p[2].id}

\* Every chain has its FINAL event.
Closed(events) ==
    \A k \in 1 .. Len(events) : \E j \in 1 .. Len(events) :
        /\ events[j].task = events[k].task /\ events[j].id = events[k].id
        /\ events[j].phase = "final"

\* No event has another task or an id after top.
Belongs(events, id, top) ==
    \A k \in 1 .. Len(events) : events[k].task = id /\ events[k].id <= top

\* The buffer of a task, or of a finished one: it begins with the input.
Buffer(b, n, top) ==
    /\ b.id <= n
    /\ b.events # <<>> /\ b.events[1].kind = "input" /\ b.events[1].phase = "final"
    /\ Belongs(b.events, b.id, top)
    /\ Ordered(b.events, Timely)

TaskInv(t, n, top) ==
    /\ Buffer(t, n, top) /\ Closed(t.events)
    /\ t.paused => /\ t.events[Len(t.events)].kind = "interrupted"
                   /\ t.events[Len(t.events)].phase = "final"
    /\ ~t.replayed => All(t.events, Finals)

DoneInv(d, n, top) == Buffer(d, n, top) /\ All(d.events, Finals)

SessionInv(s, n, top) ==
    /\ s \in Sessions
    /\ \A k \in 1 .. Len(s.tasks) : TaskInv(s.tasks[k], n, top)
    /\ \A k \in 1 .. Len(s.done) : DoneInv(s.done[k], n, top)
    /\ Ordered(s.tasks, DifferentTasks) /\ Ordered(s.done, DifferentDones)
    /\ \A j \in 1 .. Len(s.tasks), k \in 1 .. Len(s.done) : s.tasks[j].id # s.done[k].id

SavedInv(s, n, top) ==
    /\ SessionInv(s, n, top)
    /\ \A k \in 1 .. Len(s.tasks) : All(s.tasks[k].events, Finals)

\* The events of a chain are told without those of another task between them.
Together(h) ==
    \A i, j \in 1 .. Len(h) :
        i < j /\ h[i].task = h[j].task /\ h[i].id = h[j].id =>
            \A k \in i .. j : h[k].task = h[i].task

\* No event has an id after top.
Below(h, top) == \A k \in 1 .. Len(h) : h[k].id <= top

InOrder(h, top) ==
    h \in Seq(Events) /\ Ordered(h, Timely) /\ Together(h) /\ Below(h, top)

Buffers(s) == Range(s.tasks) \cup Range(s.done)
Known(s)   == {b.id : b \in Buffers(s)}

OfFirst(n)    == {e \in Events : e.task <= n}
OfThese(ids) == {e \in Events : e.task \in ids}

HeardInv(s, h, n, top) ==
    /\ InOrder(h, top) /\ Closed(h) /\ All(h, OfFirst(n))
    /\ \A b \in Buffers(s) : ~b.replayed => None(h, Of(b.id))

\* What was heard of a task is what its buffer holds of it, and only of tasks
\* that the session has.
ToldInv(s, h) ==
    /\ \A b \in Buffers(s) : b.replayed =>
          Keep(Keep(h, Of(b.id)), Finals) = Keep(b.events, Finals)
    /\ All(h, OfThese(Known(s)))

RunInv(s, h, n, top) ==
    /\ SessionInv(s, n, top) /\ HeardInv(s, h, n, top)
    /\ ~Kept => ToldInv(s, h)

KindOf(t) == IF t.left = "tool" THEN "result" ELSE "message"
Undone(s, t) == [s EXCEPT !.tasks = Changed(@, [t EXCEPT !.events = Front(@)])]
OpenInv(s, h, n, top) ==
    \E t \in Picked(s) :
        LET started == Event(t, top + 1, KindOf(t), "started")
        IN  /\ t.replayed /\ t.events # <<>> /\ h # <<>>
            /\ s \in Sessions /\ h \in Seq(Events)
            /\ t.events[Len(t.events)] = started /\ h[Len(h)] = started
            /\ RunInv(Undone(s, t), Front(h), n, top)

UsedInv == used \in [runs : Nat, inputs : Nat, tasks : Nat, events : Nat, calls : Nat, faults : Nat]

EventsInv ==
    /\ UsedInv /\ pc \in {"idle", "save", "loop", "open", "outputs", "failed"}
    /\ SavedInv(stored, used.tasks, used.events)
    /\ SavedInv(last, used.tasks, used.events)
    /\ pc \in {"save", "loop", "outputs"} => RunInv(live, heard, used.tasks, used.events)
    /\ pc = "open" => OpenInv(live, heard, used.tasks, used.events)
    /\ pc = "outputs" => \A k \in 1 .. Len(live.done) : live.done[k].replayed
    /\ pc = "failed" => /\ SessionInv(live, used.tasks, used.events)
                        /\ InOrder(heard, used.events)

-----------------------------------------------------------------------------
(* Lists of events.                                                         *)

LEMMA RangeOf ==
    ASSUME NEW A, NEW s \in Seq(A)
    PROVE  /\ \A k \in 1 .. Len(s) : s[k] \in Range(s) /\ s[k] \in A
           /\ \A x \in Range(s) : x \in A /\ \E k \in 1 .. Len(s) : x = s[k]
<1>1. DOMAIN s = 1 .. Len(s) /\ \A k \in 1 .. Len(s) : s[k] \in A
    BY LenProperties
<1> QED BY <1>1 DEF Range

LEMMA EventAt ==
    ASSUME NEW a \in Seq(Events), NEW i \in 1 .. Len(a)
    PROVE  /\ a[i] \in Events /\ a[i].task \in Nat /\ a[i].id \in Nat
           /\ a[i].kind \in Kinds /\ a[i].phase \in {"started", "end", "final"}
<1>1. a[i] \in Events
    BY ElementOfSeq
<1> QED BY <1>1 DEF Events

LEMMA IsOf ==
    ASSUME NEW e \in Events
    PROVE  e \in Rows /\ e \in Of(e.task)
BY DEF Events, Rows, Of

LEMMA EventTyped ==
    ASSUME NEW t, t.id \in Nat, NEW id \in Nat, NEW kind \in Kinds,
           NEW phase \in {"started", "end", "final"}
    PROVE  /\ Event(t, id, kind, phase) \in Events
           /\ Event(t, id, kind, phase).task = t.id /\ Event(t, id, kind, phase).id = id
           /\ Event(t, id, kind, phase).kind = kind /\ Event(t, id, kind, phase).phase = phase
BY DEF Event, Events

LEMMA ConcatAt ==
    ASSUME NEW A, NEW a \in Seq(A), NEW b \in Seq(A)
    PROVE  /\ a \o b \in Seq(A) /\ Len(a) \in Nat /\ Len(b) \in Nat
           /\ Len(a \o b) = Len(a) + Len(b)
           /\ \A i \in 1 .. Len(a) : i \in 1 .. Len(a \o b) /\ (a \o b)[i] = a[i]
           /\ \A j \in 1 .. Len(b) : Len(a) + j \in 1 .. Len(a \o b) /\ (a \o b)[Len(a) + j] = b[j]
           /\ \A k \in 1 .. Len(a \o b) :
                 k \in 1 .. Len(a) \/ \E j \in 1 .. Len(b) : k = Len(a) + j
<1>1. PICK c, n, m : c = a \o b /\ n = Len(a) /\ m = Len(b)
    OBVIOUS
<1>2. /\ c \in Seq(A) /\ n \in Nat /\ m \in Nat /\ Len(c) = n + m
      /\ \A i \in 1 .. n + m : c[i] = IF i <= n THEN a[i] ELSE b[i - n]
    BY <1>1, ConcatProperties, LenProperties
<1>3. \A i \in 1 .. n : i \in 1 .. n + m /\ c[i] = a[i]
    BY <1>2
<1>4. \A j \in 1 .. m : n + j \in 1 .. n + m /\ c[n + j] = b[j]
    <2>1. ASSUME NEW j \in 1 .. m PROVE n + j \in 1 .. n + m /\ c[n + j] = b[j]
        <3>1. n + j \in 1 .. n + m /\ ~(n + j <= n) /\ (n + j) - n = j
            BY <1>2
        <3> QED BY <1>2, <3>1
    <2> QED BY <2>1
<1>5. \A k \in 1 .. n + m : k \in 1 .. n \/ \E j \in 1 .. m : k = n + j
    <2>1. ASSUME NEW k \in 1 .. n + m, k \notin 1 .. n PROVE \E j \in 1 .. m : k = n + j
        <3>1. k - n \in 1 .. m /\ k = n + (k - n)
            BY <1>2, <2>1
        <3> QED BY <3>1
    <2> QED BY <2>1
<1> QED BY <1>1, <1>2, <1>3, <1>4, <1>5

\* A property of the elements holds of a \o b if it holds of both.
LEMMA AllConcat ==
    ASSUME NEW A, NEW a \in Seq(A), NEW b \in Seq(A), NEW S
    PROVE  All(a \o b, S) <=> All(a, S) /\ All(b, S)
<1>1. All(a \o b, S) => All(a, S) /\ All(b, S)
    <2>1. ASSUME All(a \o b, S), NEW i \in 1 .. Len(a) PROVE a[i] \in S
        BY <2>1, ConcatAt DEF All
    <2>2. ASSUME All(a \o b, S), NEW i \in 1 .. Len(b) PROVE b[i] \in S
        <3>1. Len(a) + i \in 1 .. Len(a \o b) /\ (a \o b)[Len(a) + i] = b[i]
            BY ConcatAt
        <3> QED BY <2>2, <3>1 DEF All
    <2> QED BY <2>1, <2>2 DEF All
<1>2. ASSUME All(a, S), All(b, S), NEW k \in 1 .. Len(a \o b) PROVE (a \o b)[k] \in S
    <2>1. CASE k \in 1 .. Len(a)
        BY <1>2, <2>1, ConcatAt DEF All
    <2>2. CASE \E j \in 1 .. Len(b) : k = Len(a) + j
        <3>1. PICK j \in 1 .. Len(b) : k = Len(a) + j
            BY <2>2
        <3>2. (a \o b)[Len(a) + j] = b[j]
            BY ConcatAt
        <3> QED BY <1>2, <3>1, <3>2 DEF All
    <2> QED BY <2>1, <2>2, ConcatAt
<1> QED BY <1>1, <1>2 DEF All

LEMMA ClosedConcat ==
    ASSUME NEW a \in Seq(Events), NEW b \in Seq(Events), Closed(a), Closed(b)
    PROVE  Closed(a \o b)
<1>1. PICK c : c = a \o b
    OBVIOUS
<1>2. ASSUME NEW k \in 1 .. Len(c)
      PROVE  \E j \in 1 .. Len(c) : c[j].task = c[k].task /\ c[j].id = c[k].id /\ c[j].phase = "final"
    <2>1. CASE k \in 1 .. Len(a)
        <3>1. PICK j \in 1 .. Len(a) : a[j].task = a[k].task /\ a[j].id = a[k].id /\ a[j].phase = "final"
            BY <2>1 DEF Closed
        <3>2. c[k] = a[k] /\ j \in 1 .. Len(c) /\ c[j] = a[j]
            BY <1>1, <2>1, ConcatAt
        <3> QED BY <3>1, <3>2
    <2>2. CASE \E i \in 1 .. Len(b) : k = Len(a) + i
        <3>1. PICK i \in 1 .. Len(b) : k = Len(a) + i
            BY <2>2
        <3>2. PICK j \in 1 .. Len(b) : b[j].task = b[i].task /\ b[j].id = b[i].id /\ b[j].phase = "final"
            BY DEF Closed
        <3>3. c[k] = b[i]
            BY <1>1, <3>1, ConcatAt
        <3>4. PICK l : l = Len(a) + j
            OBVIOUS
        <3>5. l \in 1 .. Len(c) /\ c[l] = b[j]
            BY <1>1, <3>4, ConcatAt
        <3> QED BY <3>2, <3>3, <3>5
    <2>3. k \in 1 .. Len(a) \/ \E i \in 1 .. Len(b) : k = Len(a) + i
        BY <1>1, ConcatAt
    <2> QED BY <2>1, <2>2, <2>3
<1> QED BY <1>1, <1>2 DEF Closed

LEMMA FinalsClosed ==
    ASSUME NEW a \in Seq(Events), All(a, Finals)
    PROVE  Closed(a)
BY DEF All, Finals, Closed

LEMMA BelongsConcat ==
    ASSUME NEW a \in Seq(Events), NEW b \in Seq(Events), NEW id, NEW top \in Nat, NEW more \in Nat,
           Belongs(a, id, top), Belongs(b, id, more), top <= more
    PROVE  Belongs(a \o b, id, more)
<1>1. PICK c : c = a \o b
    OBVIOUS
<1>2. ASSUME NEW k \in 1 .. Len(c) PROVE c[k].task = id /\ c[k].id <= more
    <2>1. CASE k \in 1 .. Len(a)
        <3>1. c[k] = a[k]
            BY <1>1, <2>1, ConcatAt
        <3>2. a[k].task = id /\ a[k].id <= top
            BY <2>1 DEF Belongs
        <3>3. a[k].id \in Nat
            BY <2>1, EventAt
        <3> QED BY <3>1, <3>2, <3>3
    <2>2. CASE \E i \in 1 .. Len(b) : k = Len(a) + i
        <3>1. PICK i \in 1 .. Len(b) : k = Len(a) + i
            BY <2>2
        <3>2. c[k] = b[i]
            BY <1>1, <3>1, ConcatAt
        <3>3. b[i].task = id /\ b[i].id <= more
            BY DEF Belongs
        <3> QED BY <3>2, <3>3
    <2>3. k \in 1 .. Len(a) \/ \E i \in 1 .. Len(b) : k = Len(a) + i
        BY <1>1, ConcatAt
    <2> QED BY <2>1, <2>2, <2>3
<1> QED BY <1>1, <1>2 DEF Belongs

\* What was heard stays in order when something is told of another task, or later.
LEMMA InOrderConcat ==
    ASSUME NEW h, NEW b, NEW top \in Nat, NEW more \in Nat, top <= more,
           InOrder(h, top), InOrder(b, more),
           \A i \in 1 .. Len(h), j \in 1 .. Len(b) : h[i].task # b[j].task \/ h[i].id < b[j].id
    PROVE  InOrder(h \o b, more)
<1>1. h \in Seq(Events) /\ b \in Seq(Events)
    BY DEF InOrder
<1>2. PICK c, n, m : c = h \o b /\ n = Len(h) /\ m = Len(b)
    OBVIOUS
<1>3. /\ c \in Seq(Events) /\ n \in Nat /\ m \in Nat /\ Len(c) = n + m
      /\ \A i \in 1 .. n : c[i] = h[i]
      /\ \A j \in 1 .. m : c[n + j] = b[j]
      /\ \A k \in 1 .. n + m : k \in 1 .. n \/ \E j \in 1 .. m : k = n + j
    BY <1>1, <1>2, ConcatAt
<1>4. /\ \A i \in 1 .. n : h[i] \in Events /\ h[i].id \in Nat
      /\ \A j \in 1 .. m : b[j] \in Events /\ b[j].id \in Nat
    BY <1>1, <1>2, EventAt
<1>5. Ordered(c, Timely)
    <2>1. \A i \in 1 .. Len(h), j \in 1 .. Len(b) : <<h[i], b[j]>> \in Timely
        BY <1>2, <1>4 DEF Timely
    <2> QED BY <1>1, <1>2, <2>1, OrderedConcat DEF InOrder
<1>6. ASSUME NEW i \in 1 .. n + m, NEW j \in 1 .. n + m, i < j,
             c[i].task = c[j].task, c[i].id = c[j].id, NEW k \in i .. j
      PROVE  c[k].task = c[i].task
    <2>1. CASE j \in 1 .. n
        <3>1. i \in 1 .. n /\ k \in 1 .. n
            BY <1>3, <1>6, <2>1
        <3>2. c[i] = h[i] /\ c[j] = h[j] /\ c[k] = h[k]
            BY <1>3, <2>1, <3>1
        <3> QED BY <1>2, <1>6, <2>1, <3>1, <3>2 DEF InOrder, Together
    <2>2. CASE i \in 1 .. n /\ \E l \in 1 .. m : j = n + l
        <3>1. PICK l \in 1 .. m : j = n + l
            BY <2>2
        <3>2. c[i] = h[i] /\ c[j] = b[l]
            BY <1>3, <2>2, <3>1
        <3>3. h[i].task # b[l].task \/ h[i].id < b[l].id
            BY <1>2, <2>2
        <3>4. h[i].id \in Nat /\ b[l].id \in Nat
            BY <1>4, <2>2
        <3> QED BY <1>6, <3>2, <3>3, <3>4
    <2>3. CASE i \notin 1 .. n
        <3>1. PICK x \in 1 .. m : i = n + x
            BY <1>3, <2>3
        <3>2. k \in 1 .. n + m /\ k \notin 1 .. n /\ j \notin 1 .. n
            BY <1>3, <1>6, <3>1
        <3>3. PICK y \in 1 .. m : j = n + y
            BY <1>3, <3>2
        <3>4. PICK z \in 1 .. m : k = n + z
            BY <1>3, <3>2
        <3>5. c[i] = b[x] /\ c[j] = b[y] /\ c[k] = b[z]
            BY <1>3, <3>1, <3>3, <3>4
        <3>6. x < y /\ z \in x .. y
            BY <1>3, <1>6, <3>1, <3>3, <3>4
        <3> QED BY <1>2, <1>6, <3>5, <3>6 DEF InOrder, Together
    <2> QED BY <1>3, <2>1, <2>2, <2>3
<1>7. Together(c)
    BY <1>3, <1>6 DEF Together
<1>8. Below(c, more)
    <2>1. ASSUME NEW k \in 1 .. n + m PROVE c[k].id <= more
        <3>1. CASE k \in 1 .. n
            <4>1. h[k].id <= top
                BY <1>2, <3>1 DEF InOrder, Below
            <4> QED BY <1>3, <1>4, <3>1, <4>1
        <3>2. CASE \E j \in 1 .. m : k = n + j
            BY <1>2, <1>3, <3>2 DEF InOrder, Below
        <3> QED BY <1>3, <3>1, <3>2
    <2> QED BY <1>3, <2>1 DEF Below
<1> QED BY <1>2, <1>3, <1>5, <1>7, <1>8 DEF InOrder

\* The events of one task are told together.
LEMMA InOrderOfTask ==
    ASSUME NEW a \in Seq(Events), NEW id, NEW top, Belongs(a, id, top), Ordered(a, Timely)
    PROVE  InOrder(a, top)
<1>1. Below(a, top)
    BY DEF Belongs, Below
<1>2. Together(a)
    <2>1. \A i, j \in 1 .. Len(a) : \A k \in i .. j : k \in 1 .. Len(a)
        BY LenProperties
    <2> QED BY <2>1 DEF Belongs, Together
<1> QED BY <1>1, <1>2 DEF InOrder

\* Two FINAL events of a task are not of the same chain.
LEMMA FinalsApart ==
    ASSUME NEW a \in Seq(Events), All(a, Finals), Ordered(a, Timely),
           NEW i \in 1 .. Len(a), NEW j \in 1 .. Len(a), i < j
    PROVE  a[i].task # a[j].task \/ a[i].id < a[j].id
<1>1. <<a[i], a[j]>> \in Timely
    BY DEF Ordered
<1>2. a[i].phase = "final" /\ a[j].phase = "final"
    BY DEF All, Finals
<1> QED BY <1>1, <1>2 DEF Timely, Rank

LEMMA InOrderOfFinals ==
    ASSUME NEW a \in Seq(Events), NEW top, All(a, Finals), Ordered(a, Timely), Below(a, top)
    PROVE  InOrder(a, top)
<1>1. ASSUME NEW i \in 1 .. Len(a), NEW j \in 1 .. Len(a), i < j, a[i].task = a[j].task
      PROVE  a[i].id # a[j].id
    <2>1. a[i].id < a[j].id
        BY <1>1, FinalsApart
    <2>2. a[i].id \in Nat /\ a[j].id \in Nat
        BY EventAt
    <2> QED BY <2>1, <2>2
<1>2. Together(a)
    BY <1>1 DEF Together
<1> QED BY <1>2 DEF InOrder

-----------------------------------------------------------------------------
(* What a list holds of a task.                                             *)

LEMMA NoneConcat ==
    ASSUME NEW A, NEW a \in Seq(A), NEW b \in Seq(A), NEW S, None(a, S), None(b, S)
    PROVE  None(a \o b, S)
<1>1. All(a, A \ S) /\ All(b, A \ S)
    BY ElementOfSeq DEF All, None
<1>2. All(a \o b, A \ S)
    BY <1>1, AllConcat
<1> QED BY <1>2 DEF All, None

LEMMA OfOther ==
    ASSUME NEW a \in Seq(Events), NEW id, NEW top, Belongs(a, id, top), NEW other, other # id
    PROVE  None(a, Of(other))
BY DEF Belongs, None, Of

LEMMA OfOwn ==
    ASSUME NEW a \in Seq(Events), NEW id, NEW top, Belongs(a, id, top)
    PROVE  Keep(a, Of(id)) = a
<1>1. All(a, Of(id))
    <2>1. ASSUME NEW k \in 1 .. Len(a) PROVE a[k] \in Of(id)
        <3>1. a[k] \in Events /\ a[k].task = id
            BY ElementOfSeq DEF Belongs
        <3> QED BY <3>1, IsOf
    <2> QED BY <2>1 DEF All
<1> QED BY <1>1, KeepAll

LEMMA ToldOther ==
    ASSUME NEW h \in Seq(Events), NEW a \in Seq(Events), NEW id, None(a, Of(id))
    PROVE  Keep(Keep(h \o a, Of(id)), Finals) = Keep(Keep(h, Of(id)), Finals)
<1>1. Keep(h \o a, Of(id)) = Keep(h, Of(id)) \o Keep(a, Of(id))
    BY KeepConcat
<1>2. Keep(h, Of(id)) \in Seq(Events) /\ Keep(a, Of(id)) = <<>>
    BY KeepTyped, KeepNone
<1> QED BY <1>1, <1>2, ConcatEmptySeq

LEMMA ToldOwn ==
    ASSUME NEW h \in Seq(Events), NEW a \in Seq(Events), NEW id, NEW top, Belongs(a, id, top)
    PROVE  Keep(Keep(h \o a, Of(id)), Finals) = Keep(Keep(h, Of(id)), Finals) \o Keep(a, Finals)
<1>1. Keep(h \o a, Of(id)) = Keep(h, Of(id)) \o Keep(a, Of(id))
    BY KeepConcat
<1>2. Keep(h, Of(id)) \in Seq(Events) /\ Keep(a, Of(id)) = a
    BY KeepTyped, OfOwn
<1>3. ASSUME NEW x \in Seq(Events), NEW y \in Seq(Events)
      PROVE  Keep(x \o y, Finals) = Keep(x, Finals) \o Keep(y, Finals)
    BY KeepConcat
<1> QED BY <1>1, <1>2, <1>3

-----------------------------------------------------------------------------
(* Sessions.                                                                *)

LEMMA SessionParts ==
    ASSUME NEW s \in Sessions
    PROVE  s.tasks \in Seq(Tasks) /\ s.done \in Seq(Dones) /\ s.queue \in Seq(Queued)
BY DEF Sessions

LEMMA TaskParts ==
    ASSUME NEW t \in Tasks
    PROVE  t.id \in Nat /\ t.events \in Seq(Events) /\ t.replayed \in BOOLEAN /\ t.paused \in BOOLEAN
BY DEF Tasks

LEMMA DoneParts ==
    ASSUME NEW d \in Dones
    PROVE  d.id \in Nat /\ d.events \in Seq(Events) /\ d.replayed \in BOOLEAN
BY DEF Dones

LEMMA ChangedAt ==
    ASSUME NEW tasks \in Seq(Tasks), NEW t \in Tasks
    PROVE  /\ Changed(tasks, t) \in Seq(Tasks) /\ Len(Changed(tasks, t)) = Len(tasks)
           /\ \A k \in 1 .. Len(tasks) :
                 /\ Changed(tasks, t)[k] = IF tasks[k].id = t.id THEN t ELSE tasks[k]
                 /\ Changed(tasks, t)[k].id = tasks[k].id
<1>1. PICK n, c : n = Len(tasks) /\ c = Changed(tasks, t)
    OBVIOUS
<1>2. n \in Nat /\ DOMAIN tasks = 1 .. n /\ \A k \in 1 .. n : tasks[k] \in Tasks
    BY <1>1, LenProperties
<1>3. c = [k \in 1 .. n |-> IF tasks[k].id = t.id THEN t ELSE tasks[k]]
    BY <1>1, <1>2 DEF Changed
<1>4. c \in [1 .. n -> Tasks]
    BY <1>2, <1>3
<1>5. c \in Seq(Tasks) /\ Len(c) = n
    BY <1>2, <1>4, ListOfLength
<1>6. \A k \in 1 .. n : c[k].id = tasks[k].id
    BY <1>3
<1> QED BY <1>1, <1>3, <1>5, <1>6

\* The places of a session's tasks, and of its finished ones.
LEMMA BufferIn ==
    ASSUME NEW s \in Sessions
    PROVE  /\ \A b \in Buffers(s) :
                 /\ b.id \in Nat /\ b.events \in Seq(Events) /\ b.replayed \in BOOLEAN
                 /\ \/ b \in Tasks /\ \E k \in 1 .. Len(s.tasks) : b = s.tasks[k]
                    \/ b \in Dones /\ \E k \in 1 .. Len(s.done) : b = s.done[k]
           /\ \A k \in 1 .. Len(s.tasks) : s.tasks[k] \in Buffers(s) /\ s.tasks[k] \in Tasks
           /\ \A k \in 1 .. Len(s.done) : s.done[k] \in Buffers(s) /\ s.done[k] \in Dones
<1>1. PICK ts, ds : ts = s.tasks /\ ds = s.done
    OBVIOUS
<1>2. ts \in Seq(Tasks) /\ ds \in Seq(Dones)
    BY <1>1, SessionParts
<1>3. /\ \A k \in 1 .. Len(ts) : ts[k] \in Range(ts) /\ ts[k] \in Tasks
      /\ \A b \in Range(ts) : b \in Tasks /\ \E k \in 1 .. Len(ts) : b = ts[k]
    BY <1>2, RangeOf
<1>4. /\ \A k \in 1 .. Len(ds) : ds[k] \in Range(ds) /\ ds[k] \in Dones
      /\ \A b \in Range(ds) : b \in Dones /\ \E k \in 1 .. Len(ds) : b = ds[k]
    BY <1>2, RangeOf
<1>5. Buffers(s) = Range(ts) \cup Range(ds)
    BY <1>1 DEF Buffers
<1> HIDE <1>1
<1>6. \A b \in Buffers(s) : b.id \in Nat /\ b.events \in Seq(Events) /\ b.replayed \in BOOLEAN
    BY <1>3, <1>4, <1>5, TaskParts, DoneParts
<1> QED BY <1>1, <1>3, <1>4, <1>5, <1>6

\* Tasks and finished ones have different numbers.
LEMMA NoTwins ==
    ASSUME NEW s, NEW n, NEW top, SessionInv(s, n, top),
           NEW b \in Buffers(s), NEW c \in Buffers(s), b.id = c.id
    PROVE  b = c
<1>1. s \in Sessions
    BY DEF SessionInv
<1>2. PICK ts, ds, tn, dn : ts = s.tasks /\ ds = s.done /\ tn = Len(ts) /\ dn = Len(ds)
    OBVIOUS
<1>3. tn \in Nat /\ dn \in Nat
    BY <1>1, <1>2, SessionParts, LenProperties
<1>4. \A i, j \in 1 .. tn : i < j => ts[i].id # ts[j].id
    BY <1>2 DEF SessionInv, Ordered, DifferentTasks
<1>5. \A i, j \in 1 .. dn : i < j => ds[i].id # ds[j].id
    BY <1>2 DEF SessionInv, Ordered, DifferentDones
<1>6. \A i \in 1 .. tn, j \in 1 .. dn : ts[i].id # ds[j].id
    BY <1>2 DEF SessionInv
<1>7. (\E k \in 1 .. tn : b = ts[k]) \/ (\E k \in 1 .. dn : b = ds[k])
    BY <1>1, <1>2, BufferIn
<1>8. (\E k \in 1 .. tn : c = ts[k]) \/ (\E k \in 1 .. dn : c = ds[k])
    BY <1>1, <1>2, BufferIn
<1>9. \A i, j \in 1 .. tn : ts[i].id = ts[j].id => i = j
    BY <1>3, <1>4
<1>10. \A i, j \in 1 .. dn : ds[i].id = ds[j].id => i = j
    BY <1>3, <1>5
<1> QED BY <1>6, <1>7, <1>8, <1>9, <1>10

LEMMA BufferInv ==
    ASSUME NEW s, NEW n, NEW top, SessionInv(s, n, top), NEW b \in Buffers(s)
    PROVE  Buffer(b, n, top) /\ Closed(b.events) /\ (~b.replayed => All(b.events, Finals))
<1>1. s \in Sessions
    BY DEF SessionInv
<1>2. CASE \E k \in 1 .. Len(s.tasks) : b = s.tasks[k]
    BY <1>2 DEF SessionInv, TaskInv
<1>3. CASE \E k \in 1 .. Len(s.done) : b = s.done[k]
    <2>1. Buffer(b, n, top) /\ All(b.events, Finals)
        BY <1>3 DEF SessionInv, DoneInv
    <2>2. b.events \in Seq(Events)
        BY <1>1, BufferIn
    <2> QED BY <2>1, <2>2, FinalsClosed
<1> QED BY <1>1, <1>2, <1>3, BufferIn

-----------------------------------------------------------------------------
(* A step that tells events of a task.                                      *)

\* New events of a task, which close their chains.
Block(a, id, top, more) ==
    /\ a \in Seq(Events) /\ Belongs(a, id, more) /\ Ordered(a, Timely) /\ Closed(a)
    /\ \A k \in 1 .. Len(a) : top < a[k].id

LEMMA BelongsMore ==
    ASSUME NEW a \in Seq(Events), NEW id, NEW top \in Nat, NEW more \in Nat, top <= more,
           Belongs(a, id, top)
    PROVE  Belongs(a, id, more)
<1>1. ASSUME NEW k \in 1 .. Len(a) PROVE a[k].task = id /\ a[k].id <= more
    <2>1. a[k].task = id /\ a[k].id <= top /\ a[k].id \in Nat
        BY EventAt DEF Belongs
    <2> QED BY <2>1
<1> QED BY <1>1 DEF Belongs

LEMMA Grows ==
    ASSUME NEW top \in Nat, NEW more \in Nat, top <= more, NEW id,
           NEW a \in Seq(Events), Belongs(a, id, top), Ordered(a, Timely),
           NEW b, Block(b, id, top, more)
    PROVE  Belongs(a \o b, id, more) /\ Ordered(a \o b, Timely)
<1>1. b \in Seq(Events) /\ Belongs(b, id, more) /\ Ordered(b, Timely)
    BY DEF Block
<1>2. ASSUME NEW i \in 1 .. Len(a), NEW j \in 1 .. Len(b) PROVE <<a[i], b[j]>> \in Timely
    <2>1. a[i] \in Events /\ b[j] \in Events /\ a[i].id \in Nat /\ b[j].id \in Nat
        BY <1>1, EventAt
    <2>2. a[i].id <= top /\ top < b[j].id
        BY DEF Belongs, Block
    <2>3. a[i].id < b[j].id
        BY <2>1, <2>2
    <2> QED BY <2>1, <2>3 DEF Timely
<1>3. Ordered(a \o b, Timely)
    BY <1>1, <1>2, OrderedConcat
<1> QED BY <1>1, <1>3, BelongsConcat

\* The first and the last event of what a buffer becomes.
LEMMA FirstOfConcat ==
    ASSUME NEW A, NEW a \in Seq(A), NEW b \in Seq(A), a # <<>>
    PROVE  a \o b # <<>> /\ (a \o b)[1] = a[1]
<1>1. 1 \in 1 .. Len(a)
    BY EmptySeq
<1>2. 1 \in 1 .. Len(a \o b) /\ (a \o b)[1] = a[1]
    BY <1>1, ConcatAt
<1> QED BY <1>2, EmptySeq

LEMMA LastOfConcat ==
    ASSUME NEW A, NEW a \in Seq(A), NEW b \in Seq(A), b # <<>>
    PROVE  a \o b # <<>> /\ (a \o b)[Len(a \o b)] = b[Len(b)]
<1>1. Len(b) \in 1 .. Len(b)
    BY EmptySeq
<1>2. (a \o b)[Len(a) + Len(b)] = b[Len(b)] /\ Len(a \o b) = Len(a) + Len(b)
    BY <1>1, ConcatAt
<1>3. Len(a \o b) # 0
    BY <1>1, <1>2, ConcatAt
<1> QED BY <1>2, <1>3, EmptySeq

LEMMA BufferMore ==
    ASSUME NEW top \in Nat, NEW more \in Nat, top <= more, NEW n \in Nat, NEW many \in Nat, n <= many,
           NEW b, b.id \in Nat, b.events \in Seq(Events), Buffer(b, n, top)
    PROVE  Buffer(b, many, more)
<1>1. Belongs(b.events, b.id, more)
    BY BelongsMore DEF Buffer
<1> QED BY <1>1 DEF Buffer

LEMMA SessionMore ==
    ASSUME NEW top \in Nat, NEW more \in Nat, top <= more, NEW n \in Nat, NEW many \in Nat, n <= many,
           NEW s, SessionInv(s, n, top)
    PROVE  SessionInv(s, many, more)
<1>1. s \in Sessions
    BY DEF SessionInv
<1>2. ASSUME NEW k \in 1 .. Len(s.tasks) PROVE TaskInv(s.tasks[k], many, more)
    <2>1. TaskInv(s.tasks[k], n, top)
        BY DEF SessionInv
    <2>2. s.tasks[k].id \in Nat /\ s.tasks[k].events \in Seq(Events)
        BY <1>1, BufferIn
    <2>3. Buffer(s.tasks[k], many, more)
        BY <2>1, <2>2, BufferMore DEF TaskInv
    <2> QED BY <2>1, <2>3 DEF TaskInv
<1>3. ASSUME NEW k \in 1 .. Len(s.done) PROVE DoneInv(s.done[k], many, more)
    <2>1. DoneInv(s.done[k], n, top)
        BY DEF SessionInv
    <2>2. s.done[k].id \in Nat /\ s.done[k].events \in Seq(Events)
        BY <1>1, BufferIn
    <2>3. Buffer(s.done[k], many, more)
        BY <2>1, <2>2, BufferMore DEF DoneInv
    <2> QED BY <2>1, <2>3 DEF DoneInv
<1> QED BY <1>2, <1>3 DEF SessionInv

LEMMA SavedMore ==
    ASSUME NEW top \in Nat, NEW more \in Nat, top <= more, NEW n \in Nat, NEW many \in Nat, n <= many,
           NEW s, SavedInv(s, n, top)
    PROVE  SavedInv(s, many, more)
<1>1. SessionInv(s, many, more)
    BY SessionMore DEF SavedInv
<1> QED BY <1>1 DEF SavedInv

\* s2 is the session s with another form of a task.
Replaces(s2, s, t) ==
    s2 \in Sessions /\ s2.tasks = Changed(s.tasks, t) /\ s2.done = s.done

LEMMA SessionReplaced ==
    ASSUME NEW top \in Nat, NEW more \in Nat, top <= more, NEW n \in Nat,
           NEW s, SessionInv(s, n, top), NEW t \in Tasks, TaskInv(t, n, more),
           NEW s2, Replaces(s2, s, t)
    PROVE  SessionInv(s2, n, more)
<1>1. s \in Sessions /\ s2 \in Sessions /\ SessionInv(s, n, more)
    <2>1. n <= n
        OBVIOUS
    <2>2. SessionInv(s, n, more)
        BY <2>1, SessionMore
    <2> QED BY <2>2 DEF SessionInv, Replaces
<1>2. PICK ts, ds, cs : ts = s.tasks /\ ds = s.done /\ cs = s2.tasks
    OBVIOUS
<1>3. ts \in Seq(Tasks) /\ cs = Changed(ts, t) /\ s2.done = ds
    BY <1>1, <1>2, SessionParts DEF Replaces
<1>4. /\ Len(cs) = Len(ts)
      /\ \A k \in 1 .. Len(ts) : cs[k] = (IF ts[k].id = t.id THEN t ELSE ts[k]) /\ cs[k].id = ts[k].id
    BY <1>3, ChangedAt
<1>5. /\ \A k \in 1 .. Len(ts) : TaskInv(ts[k], n, more)
      /\ \A k \in 1 .. Len(ds) : DoneInv(ds[k], n, more)
      /\ Ordered(ts, DifferentTasks) /\ Ordered(ds, DifferentDones)
      /\ \A j \in 1 .. Len(ts), k \in 1 .. Len(ds) : ts[j].id # ds[k].id
    BY <1>1, <1>2 DEF SessionInv
<1>6. \A k \in 1 .. Len(cs) : TaskInv(cs[k], n, more)
    BY <1>4, <1>5
<1>7. \A k \in 1 .. Len(cs) : cs[k] \in Tasks
    BY <1>1, <1>2, BufferIn
<1>8. Ordered(cs, DifferentTasks)
    <2>1. ASSUME NEW i \in 1 .. Len(cs), NEW j \in 1 .. Len(cs), i < j PROVE cs[i].id # cs[j].id
        <3>1. <<ts[i], ts[j]>> \in DifferentTasks
            BY <1>4, <1>5, <2>1 DEF Ordered
        <3>2. ts[i].id # ts[j].id
            BY <3>1 DEF DifferentTasks
        <3> QED BY <1>4, <3>2
    <2> QED BY <1>7, <2>1 DEF Ordered, DifferentTasks
<1>9. \A j \in 1 .. Len(cs), k \in 1 .. Len(ds) : cs[j].id # ds[k].id
    BY <1>4, <1>5
<1> QED BY <1>1, <1>2, <1>3, <1>5, <1>6, <1>8, <1>9 DEF SessionInv

\* What a buffer of s2 is in s.
LEMMA ReplacedBuffers ==
    ASSUME NEW s, NEW n, NEW top, SessionInv(s, n, top), NEW t \in Tasks, NEW u \in Range(s.tasks),
           t.id = u.id, NEW s2, Replaces(s2, s, t)
    PROVE  /\ \A b \in Buffers(s2) : b = t \/ (b \in Buffers(s) /\ b.id # t.id)
           /\ t \in Buffers(s2) /\ t \in Range(s2.tasks) /\ Known(s2) = Known(s)
<1>1. s \in Sessions /\ s2 \in Sessions
    BY DEF SessionInv, Replaces
<1>2. PICK ts, ds, cs : ts = s.tasks /\ ds = s.done /\ cs = s2.tasks
    OBVIOUS
<1>3. ts \in Seq(Tasks) /\ cs = Changed(ts, t) /\ s2.done = ds /\ cs \in Seq(Tasks) /\ ds \in Seq(Dones)
    BY <1>1, <1>2, SessionParts DEF Replaces
<1>4. /\ Len(cs) = Len(ts)
      /\ \A k \in 1 .. Len(ts) : cs[k] = (IF ts[k].id = t.id THEN t ELSE ts[k]) /\ cs[k].id = ts[k].id
    <2>1. ts \in Seq(Tasks)
        BY <1>3
    <2>2. /\ Len(Changed(ts, t)) = Len(ts)
          /\ \A k \in 1 .. Len(ts) :
                /\ Changed(ts, t)[k] = IF ts[k].id = t.id THEN t ELSE ts[k]
                /\ Changed(ts, t)[k].id = ts[k].id
        BY <2>1, ChangedAt
    <2> QED BY <1>3, <2>2
<1>5. PICK j \in 1 .. Len(ts) : u = ts[j]
    BY <1>2, <1>3, RangeOf
<1>6. u \in Buffers(s) /\ cs[j] = t /\ t \in Buffers(s2) /\ t \in Range(s2.tasks)
    <2>1. u \in Buffers(s) /\ cs[j] = t /\ j \in 1 .. Len(cs)
        BY <1>1, <1>2, <1>4, <1>5, BufferIn
    <2>2. cs[j] \in Range(cs) /\ cs[j] \in Buffers(s2)
        BY <1>1, <1>2, <1>3, <2>1, BufferIn, RangeOf
    <2> QED BY <1>2, <2>1, <2>2
<1>7. ASSUME NEW b \in Buffers(s2) PROVE b = t \/ (b \in Buffers(s) /\ b.id # t.id)
    <2>1. CASE \E k \in 1 .. Len(cs) : b = cs[k]
        <3>1. PICK k \in 1 .. Len(ts) : b = cs[k]
            BY <1>4, <2>1
        <3>2. ts[k] \in Buffers(s)
            BY <1>1, <1>2, BufferIn
        <3> QED BY <1>4, <3>1, <3>2
    <2>2. CASE \E k \in 1 .. Len(ds) : b = ds[k]
        <3>1. b \in Buffers(s)
            BY <1>1, <1>2, <2>2, BufferIn
        <3>2. b.id # u.id
            BY <1>2, <1>5, <2>2 DEF SessionInv
        <3> QED BY <3>1, <3>2
    <2>3. (\E k \in 1 .. Len(s2.tasks) : b = s2.tasks[k]) \/ (\E k \in 1 .. Len(s2.done) : b = s2.done[k])
        BY <1>1, BufferIn
    <2> QED BY <1>2, <1>3, <2>1, <2>2, <2>3
<1>8. ASSUME NEW b \in Buffers(s) PROVE b.id \in Known(s2)
    <2>1. CASE \E k \in 1 .. Len(ts) : b = ts[k]
        <3>1. PICK k \in 1 .. Len(ts) : b = ts[k]
            BY <2>1
        <3>2. k \in 1 .. Len(cs) /\ cs[k].id = b.id
            BY <1>4, <3>1
        <3>3. cs[k] \in Buffers(s2)
            BY <1>1, <1>2, <3>2, BufferIn
        <3> QED BY <3>2, <3>3 DEF Known
    <2>2. CASE \E k \in 1 .. Len(ds) : b = ds[k]
        <3>1. b \in Buffers(s2)
            BY <1>1, <1>2, <1>3, <2>2, BufferIn
        <3> QED BY <3>1 DEF Known
    <2> QED BY <1>1, <1>2, <2>1, <2>2, BufferIn
<1>9. Known(s2) = Known(s)
    BY <1>6, <1>7, <1>8 DEF Known
<1> QED BY <1>6, <1>7, <1>9

\* What Publish tells before the new events.
Past(t) == IF t.replayed THEN <<>> ELSE t.events

LEMMA PastTold ==
    ASSUME NEW top \in Nat, NEW n \in Nat, NEW s, NEW h, SessionInv(s, n, top), HeardInv(s, h, n, top),
           NEW u \in Buffers(s)
    PROVE  /\ h \in Seq(Events) /\ Past(u) \in Seq(Events) /\ h \o Past(u) \in Seq(Events)
           /\ Belongs(Past(u), u.id, top)
           /\ InOrder(h \o Past(u), top) /\ Closed(h \o Past(u)) /\ All(h \o Past(u), OfFirst(n))
           /\ \A c \in Buffers(s) : ~c.replayed /\ c.id # u.id => None(h \o Past(u), Of(c.id))
<1>1. s \in Sessions /\ h \in Seq(Events)
    BY DEF SessionInv, HeardInv, InOrder
<1>2. u.id \in Nat /\ u.events \in Seq(Events)
    BY <1>1, BufferIn
<1>3. Past(u) \in Seq(Events)
    BY <1>2 DEF Past
<1>4. u.id <= n /\ Belongs(u.events, u.id, top) /\ Ordered(u.events, Timely) /\ Closed(u.events)
    BY BufferInv DEF Buffer
<1>5. Belongs(Past(u), u.id, top) /\ Ordered(Past(u), Timely) /\ Closed(Past(u))
    <2>1. CASE u.replayed
        <3>1. Past(u) = <<>> /\ Len(<<>>) = 0
            BY <2>1, EmptySeq DEF Past
        <3> QED BY <3>1 DEF Belongs, Ordered, Closed
    <2>2. CASE ~u.replayed
        BY <1>4, <2>2 DEF Past
    <2> QED BY <2>1, <2>2
<1>6. InOrder(h \o Past(u), top)
    <2>1. InOrder(h, top) /\ InOrder(Past(u), top) /\ top <= top
        BY <1>3, <1>5, InOrderOfTask DEF HeardInv
    <2>2. ASSUME NEW i \in 1 .. Len(h), NEW j \in 1 .. Len(Past(u)) PROVE h[i].task # Past(u)[j].task
        <3>1. ~u.replayed
            BY <2>2 DEF Past
        <3>2. h[i] \notin Of(u.id) /\ h[i] \in Events
            BY <1>1, <3>1, EventAt DEF HeardInv, None
        <3>3. Past(u)[j].task = u.id
            BY <1>5 DEF Belongs
        <3> QED BY <3>2, <3>3, IsOf
    <2> QED BY <2>1, <2>2, InOrderConcat
<1>7. Closed(h \o Past(u))
    BY <1>1, <1>3, <1>5, ClosedConcat DEF HeardInv
<1>8. All(h \o Past(u), OfFirst(n))
    <2>1. All(Past(u), OfFirst(n))
        BY <1>3, <1>4, <1>5, EventAt DEF Belongs, All, OfFirst
    <2> QED BY <1>1, <1>3, <2>1, AllConcat DEF HeardInv
<1>9. ASSUME NEW c \in Buffers(s), ~c.replayed, c.id # u.id PROVE None(h \o Past(u), Of(c.id))
    <2>1. None(h, Of(c.id))
        BY <1>9 DEF HeardInv
    <2>2. None(Past(u), Of(c.id))
        BY <1>3, <1>5, <1>9, OfOther
    <2> QED BY <1>1, <1>3, <2>1, <2>2, NoneConcat
<1> QED BY <1>1, <1>3, <1>5, <1>6, <1>7, <1>8, <1>9, ConcatProperties

LEMMA BlockTold ==
    ASSUME NEW top \in Nat, NEW more \in Nat, top <= more, NEW n \in Nat, NEW id, id <= n,
           NEW h, InOrder(h, top), Closed(h), All(h, OfFirst(n)), NEW b, Block(b, id, top, more)
    PROVE  /\ InOrder(h \o b, more) /\ Closed(h \o b) /\ All(h \o b, OfFirst(n))
           /\ \A other : other # id /\ None(h, Of(other)) => None(h \o b, Of(other))
<1>1. h \in Seq(Events) /\ b \in Seq(Events) /\ Belongs(b, id, more) /\ Ordered(b, Timely) /\ Closed(b)
    BY DEF InOrder, Block
<1>2. InOrder(h \o b, more)
    <2>1. InOrder(b, more)
        BY <1>1, InOrderOfTask
    <2>2. ASSUME NEW i \in 1 .. Len(h), NEW j \in 1 .. Len(b) PROVE h[i].id < b[j].id
        <3>1. h[i].id \in Nat /\ b[j].id \in Nat
            BY <1>1, EventAt
        <3>2. h[i].id <= top /\ top < b[j].id
            BY DEF InOrder, Below, Block
        <3> QED BY <3>1, <3>2
    <2> QED BY <2>1, <2>2, InOrderConcat
<1>3. Closed(h \o b)
    BY <1>1, ClosedConcat
<1>4. All(h \o b, OfFirst(n))
    <2>1. All(b, OfFirst(n))
        BY <1>1, EventAt DEF Belongs, All, OfFirst
    <2> QED BY <1>1, <2>1, AllConcat
<1>5. ASSUME NEW other, other # id, None(h, Of(other)) PROVE None(h \o b, Of(other))
    <2>1. None(b, Of(other))
        BY <1>1, <1>5, OfOther
    <2> QED BY <1>1, <1>5, <2>1, NoneConcat
<1> QED BY <1>2, <1>3, <1>4, <1>5

LEMMA HeardTold ==
    ASSUME NEW top \in Nat, NEW more \in Nat, top <= more, NEW n \in Nat,
           NEW s, NEW h, SessionInv(s, n, top), HeardInv(s, h, n, top),
           NEW u \in Range(s.tasks), NEW t \in Tasks, t.id = u.id, t.replayed,
           NEW b, Block(b, u.id, top, more), NEW s2, Replaces(s2, s, t)
    PROVE  HeardInv(s2, (h \o Past(u)) \o b, n, more)
<1>1. u \in Buffers(s) /\ u.id <= n
    <2>1. u \in Buffers(s)
        BY DEF Buffers
    <2> QED BY <2>1, BufferInv DEF Buffer
<1>2. PICK g : g = h \o Past(u)
    OBVIOUS
<1>3. /\ InOrder(g, top) /\ Closed(g) /\ All(g, OfFirst(n))
      /\ \A c \in Buffers(s) : ~c.replayed /\ c.id # u.id => None(g, Of(c.id))
    BY <1>1, <1>2, PastTold
<1>4. /\ InOrder(g \o b, more) /\ Closed(g \o b) /\ All(g \o b, OfFirst(n))
      /\ \A other : other # u.id /\ None(g, Of(other)) => None(g \o b, Of(other))
    BY <1>1, <1>3, BlockTold
<1>5. ASSUME NEW c \in Buffers(s2), ~c.replayed PROVE None(g \o b, Of(c.id))
    <2>1. c \in Buffers(s) /\ c.id # u.id
        BY <1>5, ReplacedBuffers
    <2> QED BY <1>3, <1>4, <1>5, <2>1
<1> QED BY <1>2, <1>4, <1>5 DEF HeardInv

LEMMA ToldTold ==
    ASSUME NEW top \in Nat, NEW more \in Nat, top <= more, NEW n \in Nat,
           NEW s, NEW h, SessionInv(s, n, top), HeardInv(s, h, n, top), ToldInv(s, h),
           NEW u \in Range(s.tasks), NEW t \in Tasks, t.id = u.id, t.replayed,
           NEW b, Block(b, u.id, top, more), t.events = u.events \o b,
           NEW s2, Replaces(s2, s, t)
    PROVE  ToldInv(s2, (h \o Past(u)) \o b)
<1>1. s \in Sessions /\ u \in Buffers(s) /\ u.events \in Seq(Events)
    <2>1. s \in Sessions /\ u \in Buffers(s)
        BY DEF SessionInv, Buffers
    <2> QED BY <2>1, BufferIn
<1>2. PICK g, p : p = Past(u) /\ g = h \o p
    OBVIOUS
<1>3. /\ h \in Seq(Events) /\ p \in Seq(Events) /\ g \in Seq(Events)
      /\ Belongs(p, u.id, top)
    BY <1>1, <1>2, PastTold
<1>4. b \in Seq(Events) /\ Belongs(b, u.id, more)
    BY DEF Block
<1>5. ASSUME NEW c \in Buffers(s), c.id # u.id
      PROVE  Keep(Keep(g \o b, Of(c.id)), Finals) = Keep(Keep(h, Of(c.id)), Finals)
    <2>1. None(p, Of(c.id)) /\ None(b, Of(c.id))
        BY <1>3, <1>4, <1>5, OfOther
    <2>2. Keep(Keep(g \o b, Of(c.id)), Finals) = Keep(Keep(g, Of(c.id)), Finals)
        BY <1>3, <1>4, <2>1, ToldOther
    <2>3. Keep(Keep(h \o p, Of(c.id)), Finals) = Keep(Keep(h, Of(c.id)), Finals)
        BY <1>3, <2>1, ToldOther
    <2> QED BY <1>2, <2>2, <2>3
<1>6. Keep(Keep(g, Of(u.id)), Finals) = Keep(u.events, Finals)
    <2>1. CASE u.replayed
        <3>1. g = h
            BY <1>2, <1>3, <2>1, ConcatEmptySeq DEF Past
        <3> QED BY <1>1, <2>1, <3>1 DEF ToldInv
    <2>2. CASE ~u.replayed
        <3>1. p = u.events /\ None(h, Of(u.id))
            BY <1>1, <1>2, <2>2 DEF Past, HeardInv
        <3>2. Keep(h, Of(u.id)) = <<>>
            BY <1>3, <3>1, KeepNone
        <3>3. Keep(Keep(h \o p, Of(u.id)), Finals) = Keep(Keep(h, Of(u.id)), Finals) \o Keep(p, Finals)
            BY <1>3, ToldOwn
        <3>4. Keep(p, Finals) \in Seq(Events) /\ Keep(<<>>, Finals) = <<>>
            BY <1>3, KeepTyped, KeepEmpty
        <3> QED BY <1>2, <3>1, <3>2, <3>3, <3>4, ConcatEmptySeq
    <2> QED BY <2>1, <2>2
<1>7. Keep(Keep(g \o b, Of(t.id)), Finals) = Keep(t.events, Finals)
    <2>1. Keep(Keep(g \o b, Of(u.id)), Finals) = Keep(Keep(g, Of(u.id)), Finals) \o Keep(b, Finals)
        BY <1>3, <1>4, ToldOwn
    <2>2. PICK e : e = u.events
        OBVIOUS
    <2>3. e \in Seq(Events) /\ b \in Seq(Events)
        BY <1>1, <1>4, <2>2
    <2>4. Keep(e \o b, Finals) = Keep(e, Finals) \o Keep(b, Finals)
        BY <2>3, KeepConcat
    <2> QED BY <1>6, <2>1, <2>2, <2>4
<1>8. ASSUME NEW c \in Buffers(s2), c.replayed
      PROVE  Keep(Keep(g \o b, Of(c.id)), Finals) = Keep(c.events, Finals)
    <2>1. CASE c = t
        BY <1>7, <2>1
    <2>2. CASE c \in Buffers(s) /\ c.id # t.id
        BY <1>5, <1>8, <2>2 DEF ToldInv
    <2> QED BY <2>1, <2>2, ReplacedBuffers
<1>9. All(g \o b, OfThese(Known(s2)))
    <2>1. Known(s2) = Known(s) /\ u.id \in Known(s)
        BY <1>1, ReplacedBuffers DEF Known
    <2>2. All(h, OfThese(Known(s)))
        BY DEF ToldInv
    <2>3. All(p, OfThese(Known(s))) /\ All(b, OfThese(Known(s)))
        BY <1>3, <1>4, <2>1, EventAt DEF Belongs, All, OfThese
    <2> QED BY <1>2, <1>3, <1>4, <2>1, <2>2, <2>3, AllConcat
<1> QED BY <1>2, <1>8, <1>9 DEF ToldInv

LEMMA PublishInv ==
    ASSUME NEW top \in Nat, NEW more \in Nat, top <= more, NEW n \in Nat,
           NEW s, NEW h, RunInv(s, h, n, top),
           NEW u \in Range(s.tasks), NEW t \in Tasks, t.id = u.id, t.replayed,
           NEW b, Block(b, u.id, top, more), t.events = u.events \o b,
           t.paused => b # <<>> /\ b[Len(b)].kind = "interrupted" /\ b[Len(b)].phase = "final",
           NEW s2, Replaces(s2, s, t)
    PROVE  RunInv(s2, (h \o Past(u)) \o b, n, more)
<1>1. SessionInv(s, n, top) /\ HeardInv(s, h, n, top)
    BY DEF RunInv
<1>2. PICK e : e = u.events
    OBVIOUS
<1>3. u \in Buffers(s) /\ e \in Seq(Events) /\ b \in Seq(Events)
    <2>1. u \in Buffers(s) /\ s \in Sessions
        BY <1>1 DEF Buffers, SessionInv
    <2> QED BY <1>2, <2>1, BufferIn DEF Block
<1>4. /\ u.id <= n /\ e # <<>> /\ e[1].kind = "input" /\ e[1].phase = "final"
      /\ Belongs(e, u.id, top) /\ Ordered(e, Timely) /\ Closed(e)
    <2>1. Buffer(u, n, top) /\ Closed(u.events)
        BY <1>1, <1>3, BufferInv
    <2> QED BY <1>2, <2>1 DEF Buffer
<1>5. Belongs(e \o b, u.id, more) /\ Ordered(e \o b, Timely)
    BY <1>3, <1>4, Grows
<1>6. Closed(e \o b)
    BY <1>3, <1>4, ClosedConcat DEF Block
<1>7. e \o b # <<>> /\ (e \o b)[1] = e[1]
    BY <1>3, <1>4, FirstOfConcat
<1>8. t.paused => (e \o b)[Len(e \o b)] = b[Len(b)]
    BY <1>3, LastOfConcat
<1>9. TaskInv(t, n, more)
    BY <1>2, <1>4, <1>5, <1>6, <1>7, <1>8 DEF TaskInv, Buffer
<1>10. SessionInv(s2, n, more)
    BY <1>1, <1>9, SessionReplaced
<1>11. HeardInv(s2, (h \o Past(u)) \o b, n, more)
    BY <1>1, HeardTold
<1>12. ~Kept => ToldInv(s2, (h \o Past(u)) \o b)
    BY <1>1, ToldTold DEF RunInv
<1> QED BY <1>10, <1>11, <1>12 DEF RunInv

-----------------------------------------------------------------------------
(* Other changes of a session.                                              *)

\* The queue plays no part.
LEMMA Requeued ==
    ASSUME NEW n, NEW top, NEW s, NEW h, RunInv(s, h, n, top),
           NEW s2 \in Sessions, s2.tasks = s.tasks, s2.done = s.done
    PROVE  RunInv(s2, h, n, top)
<1>1. Buffers(s2) = Buffers(s) /\ Known(s2) = Known(s)
    BY DEF Buffers, Known
<1> QED BY <1>1 DEF RunInv, SessionInv, HeardInv, ToldInv

LEMMA FoldedFinals ==
    ASSUME NEW e \in Seq(Events), Closed(e)
    PROVE  Folded(e) = Keep(e, Finals)
<1> DEFINE S == {x \in Events : x.phase = "final" \/ ~\E k \in DOMAIN e : e[k].id = x.id /\ e[k].phase = "final"}
<1>1. DOMAIN e = 1 .. Len(e)
    BY LenProperties
<1>2. ASSUME NEW i \in 1 .. Len(e) PROVE e[i] \in S <=> e[i] \in Finals
    <2>1. PICK j \in 1 .. Len(e) : e[j].id = e[i].id /\ e[j].phase = "final"
        BY DEF Closed
    <2>2. e[i] \in Events
        BY EventAt
    <2> QED BY <1>1, <2>1, <2>2 DEF Finals
<1> HIDE DEF S
<1>3. Keep(e, S) = Keep(e, Finals)
    BY <1>2, KeepAgree
<1> QED BY <1>3 DEF Folded, S

LEMMA FinalsKept ==
    ASSUME NEW e \in Seq(Events), e # <<>>, e[1].phase = "final",
           NEW id, NEW top, Belongs(e, id, top), Ordered(e, Timely)
    PROVE  /\ Keep(e, Finals) \in Seq(Events) /\ Keep(e, Finals) # <<>> /\ Keep(e, Finals)[1] = e[1]
           /\ Belongs(Keep(e, Finals), id, top) /\ Ordered(Keep(e, Finals), Timely)
           /\ All(Keep(e, Finals), Finals)
           /\ e[Len(e)].phase = "final" => Keep(e, Finals)[Len(Keep(e, Finals))] = e[Len(e)]
<1>1. PICK f : f = Keep(e, Finals)
    OBVIOUS
<1>2. f \in Seq(Events)
    BY <1>1, KeepTyped
<1>3. 1 \in 1 .. Len(e) /\ Len(e) \in 1 .. Len(e)
    BY EmptySeq
<1>4. f # <<>> /\ f[1] = e[1]
    <2>1. e[1] \in Finals
        BY <1>3, EventAt DEF Finals
    <2> QED BY <1>1, <2>1, KeepFirst
<1>5. Belongs(f, id, top) /\ All(f, Finals)
    <2>1. \A p \in 1 .. Len(f) : f[p] \in Finals /\ \E i \in 1 .. Len(e) : f[p] = e[i]
        BY <1>1, KeepMembers
    <2> QED BY <2>1 DEF Belongs, All
<1>6. Ordered(f, Timely)
    BY <1>1, OrderedKeep
<1>7. e[Len(e)].phase = "final" => f[Len(f)] = e[Len(e)]
    <2>1. ASSUME e[Len(e)].phase = "final" PROVE e[Len(e)] \in Finals
        BY <1>3, <2>1, EventAt DEF Finals
    <2> QED BY <1>1, <2>1, KeepLast
<1> QED BY <1>1, <1>2, <1>4, <1>5, <1>6, <1>7

LEMMA TaskFolded ==
    ASSUME NEW t \in Tasks, NEW n, NEW top, TaskInv(t, n, top)
    PROVE  /\ FoldedTask(t) \in Tasks /\ FoldedTask(t).id = t.id
           /\ FoldedTask(t).replayed = t.replayed /\ FoldedTask(t).events = Keep(t.events, Finals)
           /\ TaskInv(FoldedTask(t), n, top) /\ All(FoldedTask(t).events, Finals)
<1>1. PICK e, f : e = t.events /\ f = Keep(e, Finals)
    OBVIOUS
<1>2. e \in Seq(Events) /\ Closed(e) /\ Folded(e) = f
    BY <1>1, TaskParts, FoldedFinals DEF TaskInv
<1>3. /\ f \in Seq(Events) /\ f # <<>> /\ f[1] = e[1] /\ Belongs(f, t.id, top) /\ Ordered(f, Timely)
      /\ All(f, Finals) /\ (e[Len(e)].phase = "final" => f[Len(f)] = e[Len(e)])
    BY <1>1, <1>2, FinalsKept DEF TaskInv, Buffer
<1>4. Closed(f)
    BY <1>3, FinalsClosed
<1>5. PICK g : g = FoldedTask(t)
    OBVIOUS
<1>6. g \in Tasks /\ g.id = t.id /\ g.replayed = t.replayed /\ g.paused = t.paused /\ g.events = f
    BY <1>1, <1>2, <1>3, <1>5 DEF FoldedTask, Tasks
<1>7. TaskInv(g, n, top)
    BY <1>1, <1>3, <1>4, <1>6 DEF TaskInv, Buffer
<1> QED BY <1>1, <1>3, <1>5, <1>6, <1>7

LEMMA FoldedAt ==
    ASSUME NEW s, NEW n, NEW top, SessionInv(s, n, top)
    PROVE  /\ FoldedTasks(s) \in Sessions /\ FoldedTasks(s).done = s.done
           /\ FoldedTasks(s).tasks \in Seq(Tasks) /\ Len(FoldedTasks(s).tasks) = Len(s.tasks)
           /\ \A k \in 1 .. Len(s.tasks) : FoldedTasks(s).tasks[k] = FoldedTask(s.tasks[k])
<1>1. PICK ts, m, fs : ts = s.tasks /\ m = Len(ts) /\ fs = [k \in DOMAIN ts |-> FoldedTask(ts[k])]
    OBVIOUS
<1>2. s \in Sessions /\ ts \in Seq(Tasks) /\ m \in Nat /\ DOMAIN ts = 1 .. m
    <2>1. s \in Sessions /\ ts \in Seq(Tasks)
        BY <1>1, SessionParts DEF SessionInv
    <2> QED BY <1>1, <2>1, LenProperties
<1>3. \A k \in 1 .. m : FoldedTask(ts[k]) \in Tasks
    <2>1. ASSUME NEW k \in 1 .. m PROVE FoldedTask(ts[k]) \in Tasks
        <3>1. ts[k] \in Tasks /\ TaskInv(ts[k], n, top)
            BY <1>1, <1>2, ElementOfSeq DEF SessionInv
        <3> QED BY <3>1, TaskFolded
    <2> QED BY <2>1
<1>4. fs \in [1 .. m -> Tasks]
    BY <1>1, <1>2, <1>3
<1>5. fs \in Seq(Tasks) /\ Len(fs) = m
    BY <1>2, <1>4, ListOfLength
<1>6. FoldedTasks(s) = [s EXCEPT !.tasks = fs]
    BY <1>1 DEF FoldedTasks
<1>7. FoldedTasks(s) \in Sessions /\ FoldedTasks(s).done = s.done /\ FoldedTasks(s).tasks = fs
    BY <1>2, <1>5, <1>6 DEF Sessions
<1> QED BY <1>1, <1>2, <1>5, <1>7

LEMMA SessionFolded ==
    ASSUME NEW s, NEW n, NEW top, SessionInv(s, n, top)
    PROVE  SavedInv(FoldedTasks(s), n, top)
<1>1. PICK f, ts, fs : f = FoldedTasks(s) /\ ts = s.tasks /\ fs = f.tasks
    OBVIOUS
<1>2. /\ s \in Sessions /\ f \in Sessions /\ f.done = s.done /\ Len(fs) = Len(ts)
      /\ \A k \in 1 .. Len(ts) : fs[k] = FoldedTask(ts[k]) /\ ts[k] \in Tasks /\ TaskInv(ts[k], n, top)
    BY <1>1, FoldedAt, BufferIn DEF SessionInv
<1>3. \A k \in 1 .. Len(fs) : /\ fs[k] \in Tasks /\ fs[k].id = ts[k].id
                              /\ TaskInv(fs[k], n, top) /\ All(fs[k].events, Finals)
    BY <1>2, TaskFolded
<1>4. Ordered(fs, DifferentTasks)
    <2>1. ASSUME NEW i \in 1 .. Len(fs), NEW j \in 1 .. Len(fs), i < j PROVE fs[i].id # fs[j].id
        <3>1. <<ts[i], ts[j]>> \in DifferentTasks
            BY <1>1, <1>2, <2>1 DEF SessionInv, Ordered
        <3> QED BY <1>3, <3>1 DEF DifferentTasks
    <2> QED BY <1>3, <2>1 DEF Ordered, DifferentTasks
<1>5. \A j \in 1 .. Len(fs), k \in 1 .. Len(f.done) : fs[j].id # f.done[k].id
    BY <1>1, <1>2, <1>3 DEF SessionInv
<1>6. SessionInv(f, n, top)
    BY <1>1, <1>2, <1>3, <1>4, <1>5 DEF SessionInv
<1> QED BY <1>1, <1>3, <1>6 DEF SavedInv

LEMMA RunFolded ==
    ASSUME NEW s, NEW h, NEW n, NEW top, RunInv(s, h, n, top)
    PROVE  RunInv(FoldedTasks(s), h, n, top) /\ SavedInv(FoldedTasks(s), n, top)
<1>1. SessionInv(s, n, top) /\ HeardInv(s, h, n, top)
    BY DEF RunInv
<1>2. PICK f : f = FoldedTasks(s)
    OBVIOUS
<1>3. SavedInv(f, n, top) /\ SessionInv(f, n, top) /\ s \in Sessions /\ f \in Sessions
    BY <1>1, <1>2, SessionFolded DEF SavedInv, SessionInv
<1>4. /\ f.done = s.done /\ Len(f.tasks) = Len(s.tasks)
      /\ \A k \in 1 .. Len(s.tasks) : /\ f.tasks[k] = FoldedTask(s.tasks[k])
                                      /\ s.tasks[k] \in Tasks /\ TaskInv(s.tasks[k], n, top)
    BY <1>1, <1>2, <1>3, FoldedAt, BufferIn DEF SessionInv
<1>5. ASSUME NEW c \in Buffers(f)
      PROVE  \E b \in Buffers(s) : /\ b.id = c.id /\ b.replayed = c.replayed
                                   /\ Keep(c.events, Finals) = Keep(b.events, Finals)
    <2>1. CASE \E k \in 1 .. Len(f.tasks) : c = f.tasks[k]
        <3>1. PICK k \in 1 .. Len(s.tasks) : c = f.tasks[k]
            BY <1>4, <2>1
        <3>2. PICK b : b = s.tasks[k]
            OBVIOUS
        <3>3. /\ b \in Buffers(s) /\ b.id = c.id /\ b.replayed = c.replayed
              /\ c.events = Keep(b.events, Finals) /\ All(c.events, Finals) /\ c.events \in Seq(Events)
            <4>1. c = FoldedTask(b) /\ b \in Tasks /\ TaskInv(b, n, top)
                BY <1>4, <3>1, <3>2
            <4>2. b \in Buffers(s)
                BY <1>3, <3>2, BufferIn
            <4> QED BY <4>1, <4>2, TaskFolded, TaskParts
        <3>4. Keep(c.events, Finals) = c.events
            BY <3>3, KeepAll
        <3> QED BY <3>3, <3>4
    <2>2. CASE \E k \in 1 .. Len(f.done) : c = f.done[k]
        <3>1. c \in Buffers(s)
            BY <1>3, <1>4, <2>2, BufferIn
        <3> QED BY <3>1
    <2>3. (\E k \in 1 .. Len(f.tasks) : c = f.tasks[k]) \/ (\E k \in 1 .. Len(f.done) : c = f.done[k])
        BY <1>3, BufferIn
    <2> QED BY <2>1, <2>2, <2>3
<1>6. ASSUME NEW b \in Buffers(s) PROVE b.id \in Known(f)
    <2>1. CASE \E k \in 1 .. Len(s.tasks) : b = s.tasks[k]
        <3>1. PICK k \in 1 .. Len(s.tasks) : b = s.tasks[k]
            BY <2>1
        <3>2. f.tasks[k].id = b.id
            BY <1>4, <3>1, TaskFolded
        <3>3. f.tasks[k] \in Buffers(f)
            BY <1>3, <1>4, BufferIn
        <3> QED BY <3>2, <3>3 DEF Known
    <2>2. CASE \E k \in 1 .. Len(s.done) : b = s.done[k]
        <3>1. b \in Buffers(f)
            BY <1>3, <1>4, <2>2, BufferIn
        <3> QED BY <3>1 DEF Known
    <2>3. (\E k \in 1 .. Len(s.tasks) : b = s.tasks[k]) \/ (\E k \in 1 .. Len(s.done) : b = s.done[k])
        BY <1>3, BufferIn
    <2> QED BY <2>1, <2>2, <2>3
<1>7. Known(f) = Known(s)
    BY <1>5, <1>6 DEF Known
<1>8. HeardInv(f, h, n, top)
    BY <1>1, <1>5 DEF HeardInv
<1>9. ToldInv(s, h) => ToldInv(f, h)
    BY <1>5, <1>7 DEF ToldInv
<1> QED BY <1>2, <1>3, <1>8, <1>9 DEF RunInv

\* A new task is told with its first events.
LEMMA AddedInv ==
    ASSUME NEW top \in Nat, NEW more \in Nat, top <= more, NEW n \in Nat, NEW m \in Nat, n < m,
           NEW s, NEW h, RunInv(s, h, n, top),
           NEW t \in Tasks, t.id = m, t.paused = FALSE, t.replayed = TRUE,
           Block(t.events, m, top, more),
           t.events # <<>>, t.events[1].kind = "input", t.events[1].phase = "final",
           NEW s2 \in Sessions, s2.tasks = Append(s.tasks, t), s2.done = s.done
    PROVE  RunInv(s2, h \o t.events, m, more)
<1>1. SessionInv(s, n, top) /\ HeardInv(s, h, n, top) /\ s \in Sessions /\ h \in Seq(Events)
    BY DEF RunInv, SessionInv, HeardInv, InOrder
<1>2. n <= m /\ SessionInv(s, m, more)
    <2>1. n <= m
        OBVIOUS
    <2> QED BY <1>1, <2>1, SessionMore
<1>3. PICK ts, ds, as, b : ts = s.tasks /\ ds = s.done /\ as = s2.tasks /\ b = t.events
    OBVIOUS
<1>4. ts \in Seq(Tasks) /\ ds \in Seq(Dones) /\ as = Append(ts, t)
    BY <1>1, <1>3, SessionParts
<1>5. /\ Len(ts) \in Nat /\ Len(as) = Len(ts) + 1 /\ as[Len(ts) + 1] = t
      /\ \A k \in 1 .. Len(ts) : as[k] = ts[k]
    <2>1. /\ Len(ts) \in Nat /\ Len(Append(ts, t)) = Len(ts) + 1 /\ Append(ts, t)[Len(ts) + 1] = t
          /\ \A k \in 1 .. Len(ts) : Append(ts, t)[k] = ts[k]
        BY <1>4, AppendProperties, LenProperties
    <2> QED BY <1>4, <2>1
<1>6. \A k \in 1 .. Len(as) : k \in 1 .. Len(ts) \/ k = Len(ts) + 1
    BY <1>5
<1>7. b \in Seq(Events) /\ Belongs(b, m, more) /\ Ordered(b, Timely) /\ Closed(b)
    BY <1>3 DEF Block
<1>8. TaskInv(t, m, more)
    BY <1>3, <1>7 DEF TaskInv, Buffer
<1>9. \A c \in Buffers(s) : c.id \in Nat /\ c.id < m
    <2>1. ASSUME NEW c \in Buffers(s) PROVE c.id \in Nat /\ c.id < m
        <3>1. c.id \in Nat /\ c.id <= n
            BY <1>1, BufferIn, BufferInv DEF Buffer
        <3> QED BY <3>1
    <2> QED BY <2>1
<1>10. /\ \A k \in 1 .. Len(ts) : ts[k] \in Buffers(s) /\ ts[k] \in Tasks /\ ts[k].id # m
       /\ \A k \in 1 .. Len(ds) : ds[k] \in Buffers(s) /\ ds[k].id # m
    BY <1>1, <1>3, <1>9, BufferIn
<1>11. SessionInv(s2, m, more)
    <2>1. /\ \A k \in 1 .. Len(ts) : TaskInv(ts[k], m, more)
          /\ \A k \in 1 .. Len(ds) : DoneInv(ds[k], m, more)
          /\ Ordered(ts, DifferentTasks) /\ Ordered(ds, DifferentDones)
          /\ \A j \in 1 .. Len(ts), k \in 1 .. Len(ds) : ts[j].id # ds[k].id
        BY <1>2, <1>3 DEF SessionInv
    <2>2. \A k \in 1 .. Len(as) : TaskInv(as[k], m, more)
        BY <1>5, <1>6, <1>8, <2>1
    <2>3. Ordered(as, DifferentTasks)
        <3>1. ASSUME NEW i \in 1 .. Len(as), NEW j \in 1 .. Len(as), i < j
              PROVE  <<as[i], as[j]>> \in DifferentTasks
            <4>1. i \in 1 .. Len(ts)
                BY <1>5, <3>1
            <4>2. CASE j \in 1 .. Len(ts)
                BY <1>5, <2>1, <3>1, <4>1, <4>2 DEF Ordered
            <4>3. CASE j = Len(ts) + 1
                BY <1>5, <1>10, <4>1, <4>3 DEF DifferentTasks
            <4> QED BY <1>6, <4>2, <4>3
        <3> QED BY <3>1 DEF Ordered
    <2>4. \A j \in 1 .. Len(as), k \in 1 .. Len(ds) : as[j].id # ds[k].id
        BY <1>5, <1>6, <1>10, <2>1
    <2> QED BY <1>3, <2>1, <2>2, <2>3, <2>4 DEF SessionInv
<1>12. /\ \A c \in Buffers(s2) : c = t \/ (c \in Buffers(s) /\ c.id # m)
       /\ Known(s) \subseteq Known(s2) /\ m \in Known(s2)
    <2>1. ASSUME NEW c \in Buffers(s2) PROVE c = t \/ c \in Buffers(s)
        <3>1. (\E k \in 1 .. Len(as) : c = as[k]) \/ (\E k \in 1 .. Len(ds) : c = ds[k])
            <4>1. \/ \E k \in 1 .. Len(s2.tasks) : c = s2.tasks[k]
                  \/ \E k \in 1 .. Len(s2.done) : c = s2.done[k]
                BY BufferIn
            <4> QED BY <1>3, <4>1
        <3> QED BY <1>5, <1>6, <1>10, <3>1
    <2>2. ASSUME NEW c \in Buffers(s) PROVE c \in Buffers(s2)
        <3>1. CASE \E k \in 1 .. Len(ts) : c = ts[k]
            <4>1. PICK k \in 1 .. Len(ts) : c = ts[k]
                BY <3>1
            <4>2. k \in 1 .. Len(as)
                BY <1>5
            <4>3. as[k] = c
                BY <1>5, <4>1
            <4> QED BY <1>3, <4>2, <4>3, BufferIn
        <3>2. CASE \E k \in 1 .. Len(ds) : c = ds[k]
            BY <1>3, <3>2, BufferIn
        <3>3. (\E k \in 1 .. Len(ts) : c = ts[k]) \/ (\E k \in 1 .. Len(ds) : c = ds[k])
            BY <1>1, <1>3, BufferIn
        <3> QED BY <3>1, <3>2, <3>3
    <2>3. t \in Buffers(s2)
        <3>1. Len(ts) + 1 \in 1 .. Len(as)
            BY <1>5
        <3> QED BY <1>3, <1>5, <3>1, BufferIn
    <2> QED BY <1>9, <2>1, <2>2, <2>3 DEF Known
<1>13. None(h, Of(m)) /\ All(h, OfFirst(m))
    <2>1. ASSUME NEW k \in 1 .. Len(h) PROVE h[k].task < m /\ h[k] \in Events /\ h[k].task \in Nat
        <3>1. h[k].task <= n /\ h[k] \in Events /\ h[k].task \in Nat
            BY <1>1, EventAt DEF HeardInv, All, OfFirst
        <3> QED BY <3>1
    <2> QED BY <2>1 DEF None, Of, All, OfFirst
<1>14. /\ InOrder(h \o b, more) /\ Closed(h \o b) /\ All(h \o b, OfFirst(m))
       /\ \A other : other # m /\ None(h, Of(other)) => None(h \o b, Of(other))
    <2>1. InOrder(h, top) /\ Closed(h) /\ m <= m /\ Block(b, m, top, more) /\ All(h, OfFirst(m))
        BY <1>1, <1>3, <1>13 DEF HeardInv
    <2>2. ASSUME NEW id, NEW g, NEW x, id <= m, InOrder(g, top), Closed(g), All(g, OfFirst(m)),
                 Block(x, id, top, more)
          PROVE  /\ InOrder(g \o x, more) /\ Closed(g \o x) /\ All(g \o x, OfFirst(m))
                 /\ \A other : other # id /\ None(g, Of(other)) => None(g \o x, Of(other))
        BY <2>2, BlockTold
    <2> QED BY <2>1, <2>2
<1>15. HeardInv(s2, h \o b, m, more)
    BY <1>1, <1>12, <1>14 DEF HeardInv
<1>16. ASSUME ~Kept PROVE ToldInv(s2, h \o b)
    <2>1. ToldInv(s, h)
        BY <1>16 DEF RunInv
    <2>2. ASSUME NEW c \in Buffers(s), c.id # m, c.replayed
          PROVE  Keep(Keep(h \o b, Of(c.id)), Finals) = Keep(c.events, Finals)
        <3>1. None(b, Of(c.id))
            BY <1>7, <2>2, OfOther
        <3>2. Keep(Keep(h \o b, Of(c.id)), Finals) = Keep(Keep(h, Of(c.id)), Finals)
            BY <1>1, <1>7, <3>1, ToldOther
        <3> QED BY <2>1, <2>2, <3>2 DEF ToldInv
    <2>3. Keep(Keep(h \o b, Of(m)), Finals) = Keep(b, Finals)
        <3>1. Keep(Keep(h \o b, Of(m)), Finals) = Keep(Keep(h, Of(m)), Finals) \o Keep(b, Finals)
            BY <1>1, <1>7, ToldOwn
        <3>2. Keep(h, Of(m)) = <<>> /\ Keep(<<>>, Finals) = <<>> /\ Keep(b, Finals) \in Seq(Events)
            BY <1>1, <1>7, <1>13, KeepNone, KeepEmpty, KeepTyped
        <3> QED BY <3>1, <3>2, ConcatEmptySeq
    <2>4. \A c \in Buffers(s2) : c.replayed =>
              Keep(Keep(h \o b, Of(c.id)), Finals) = Keep(c.events, Finals)
        BY <1>3, <1>12, <2>2, <2>3
    <2>5. All(h \o b, OfThese(Known(s2)))
        <3>1. All(h, OfThese(Known(s2)))
            BY <1>12, <2>1 DEF ToldInv, All, OfThese
        <3>2. All(b, OfThese(Known(s2)))
            BY <1>7, <1>12, EventAt DEF Belongs, All, OfThese
        <3> QED BY <1>1, <1>7, <3>1, <3>2, AllConcat
    <2> QED BY <2>4, <2>5 DEF ToldInv
<1> QED BY <1>3, <1>11, <1>15, <1>16 DEF RunInv

\* Some of the tasks of a session, and its finished ones or none.
LEMMA FewerTasks ==
    ASSUME NEW n, NEW top, NEW s, SessionInv(s, n, top), NEW S,
           NEW s2 \in Sessions, s2.tasks = Keep(s.tasks, S), s2.done \in {s.done, <<>>}
    PROVE  /\ SessionInv(s2, n, top) /\ Buffers(s2) \subseteq Buffers(s)
           /\ SavedInv(s, n, top) => SavedInv(s2, n, top)
<1>1. PICK ts, ds, ks, es : ts = s.tasks /\ ds = s.done /\ ks = s2.tasks /\ es = s2.done
    OBVIOUS
<1>2. /\ s \in Sessions /\ ts \in Seq(Tasks) /\ ds \in Seq(Dones) /\ ks \in Seq(Tasks) /\ es \in Seq(Dones)
      /\ ks = Keep(ts, S) /\ es \in {ds, <<>>}
    <2>1. s \in Sessions
        BY DEF SessionInv
    <2> QED BY <1>1, <2>1, SessionParts
<1>3. \A p \in 1 .. Len(ks) : \E i \in 1 .. Len(ts) : ks[p] = ts[i]
    <2>1. \A p \in 1 .. Len(Keep(ts, S)) : \E i \in 1 .. Len(ts) : Keep(ts, S)[p] = ts[i]
        BY <1>2, KeepMembers
    <2> QED BY <1>2, <2>1
<1>4. \A p \in 1 .. Len(es) : p \in 1 .. Len(ds) /\ es[p] = ds[p]
    <2>1. CASE es = <<>>
        BY <2>1, EmptySeq
    <2>2. CASE es = ds
        BY <2>2
    <2> QED BY <1>2, <2>1, <2>2
<1>5. /\ \A k \in 1 .. Len(ts) : TaskInv(ts[k], n, top)
      /\ \A k \in 1 .. Len(ds) : DoneInv(ds[k], n, top)
      /\ Ordered(ts, DifferentTasks) /\ Ordered(ds, DifferentDones)
      /\ \A j \in 1 .. Len(ts), k \in 1 .. Len(ds) : ts[j].id # ds[k].id
    BY <1>1 DEF SessionInv
<1>6. \A k \in 1 .. Len(ks) : TaskInv(ks[k], n, top)
    BY <1>3, <1>5
<1>7. \A k \in 1 .. Len(es) : DoneInv(es[k], n, top)
    BY <1>4, <1>5
<1>8. Ordered(ks, DifferentTasks)
    BY <1>2, <1>5, OrderedKeep
<1>9. Ordered(es, DifferentDones)
    BY <1>4, <1>5 DEF Ordered
<1>10. \A j \in 1 .. Len(ks), k \in 1 .. Len(es) : ks[j].id # es[k].id
    <2>1. ASSUME NEW j \in 1 .. Len(ks), NEW k \in 1 .. Len(es) PROVE ks[j].id # es[k].id
        <3>1. PICK i \in 1 .. Len(ts) : ks[j] = ts[i]
            BY <1>3
        <3> QED BY <1>4, <1>5, <3>1
    <2> QED BY <2>1
<1>11. SessionInv(s2, n, top)
    BY <1>1, <1>6, <1>7, <1>8, <1>9, <1>10 DEF SessionInv
<1>12. ASSUME NEW c \in Buffers(s2) PROVE c \in Buffers(s)
    <2>1. \/ \E k \in 1 .. Len(s2.tasks) : c = s2.tasks[k]
          \/ \E k \in 1 .. Len(s2.done) : c = s2.done[k]
        BY BufferIn
    <2>2. (\E k \in 1 .. Len(ts) : c = ts[k]) \/ (\E k \in 1 .. Len(ds) : c = ds[k])
        BY <1>1, <1>3, <1>4, <2>1
    <2> QED BY <1>1, <1>2, <2>2, BufferIn
<1>13. ASSUME SavedInv(s, n, top) PROVE SavedInv(s2, n, top)
    <2>1. \A k \in 1 .. Len(ts) : All(ts[k].events, Finals)
        BY <1>1, <1>13 DEF SavedInv
    <2>2. \A k \in 1 .. Len(ks) : All(ks[k].events, Finals)
        BY <1>3, <2>1
    <2> QED BY <1>1, <1>11, <2>2 DEF SavedInv
<1> QED BY <1>11, <1>12, <1>13

\* A task that has finished moves to the finished ones with its FINAL events.
LEMMA MovedInv ==
    ASSUME NEW n, NEW top, NEW s, NEW h, RunInv(s, h, n, top),
           NEW u \in Range(s.tasks), NEW d \in Dones, d.id = u.id, d.replayed = u.replayed,
           d.events = Keep(u.events, Finals),
           NEW s2 \in Sessions, s2.tasks = Without(s.tasks, u), s2.done = Append(s.done, d)
    PROVE  RunInv(s2, h, n, top)
<1>1. SessionInv(s, n, top) /\ HeardInv(s, h, n, top) /\ s \in Sessions
    BY DEF RunInv, SessionInv
<1>2. PICK ts, ds, ks, as : ts = s.tasks /\ ds = s.done /\ ks = s2.tasks /\ as = s2.done
    OBVIOUS
<1>3. PICK S : S = {x \in Range(ts) : x.id # u.id}
    OBVIOUS
<1>4. ts \in Seq(Tasks) /\ ds \in Seq(Dones) /\ ks = Keep(ts, S) /\ as = Append(ds, d)
    BY <1>1, <1>2, <1>3, SessionParts DEF Without
<1>5. PICK v : v = [s EXCEPT !.tasks = ks]
    OBVIOUS
<1>6. v \in Sessions /\ v.tasks = ks /\ v.done = ds
    <2>1. ks \in Seq(Tasks)
        BY <1>2, SessionParts
    <2> QED BY <1>1, <1>2, <1>5, <2>1 DEF Sessions
<1>7. SessionInv(v, n, top)
    BY <1>1, <1>2, <1>4, <1>6, FewerTasks
<1>8. \A k \in 1 .. Len(ks) : ks[k] \in S /\ ks[k].id # u.id
    <2>1. \A k \in 1 .. Len(Keep(ts, S)) : Keep(ts, S)[k] \in S
        BY <1>4, KeepMembers
    <2> QED BY <1>3, <1>4, <2>1
<1>9. u \in Buffers(s) /\ u.events \in Seq(Events)
    <2>1. u \in Buffers(s)
        BY DEF Buffers
    <2> QED BY <1>1, <2>1, BufferIn
<1>10. DoneInv(d, n, top)
    <2>1. Buffer(u, n, top)
        BY <1>1, <1>9, BufferInv
    <2>2. /\ d.events \in Seq(Events) /\ d.events # <<>> /\ d.events[1] = u.events[1]
          /\ Belongs(d.events, u.id, top) /\ Ordered(d.events, Timely) /\ All(d.events, Finals)
        BY <1>9, <2>1, FinalsKept DEF Buffer
    <2> QED BY <2>1, <2>2 DEF DoneInv, Buffer
<1>11. PICK m : m = Len(ds)
    OBVIOUS
<1>12. /\ m \in Nat /\ Len(as) = m + 1 /\ as[m + 1] = d
       /\ \A k \in 1 .. m : as[k] = ds[k]
    <2>1. /\ Len(ds) \in Nat /\ Len(Append(ds, d)) = Len(ds) + 1 /\ Append(ds, d)[Len(ds) + 1] = d
          /\ \A k \in 1 .. Len(ds) : Append(ds, d)[k] = ds[k]
        BY <1>4, AppendProperties, LenProperties
    <2> QED BY <1>4, <1>11, <2>1
<1>13. \A k \in 1 .. Len(as) : k \in 1 .. m \/ k = m + 1
    BY <1>12
<1>14. PICK j \in 1 .. Len(ts) : u = ts[j]
    BY <1>2, <1>4, RangeOf
<1>15. \A k \in 1 .. m : ds[k].id # u.id /\ ds[k] \in Dones /\ DoneInv(ds[k], n, top)
    BY <1>1, <1>2, <1>11, <1>14, BufferIn DEF SessionInv
<1>16. SessionInv(s2, n, top)
    <2>1. /\ \A k \in 1 .. Len(ks) : TaskInv(ks[k], n, top)
          /\ Ordered(ks, DifferentTasks) /\ Ordered(ds, DifferentDones)
          /\ \A i \in 1 .. Len(ks), k \in 1 .. m : ks[i].id # ds[k].id
        BY <1>6, <1>7, <1>11 DEF SessionInv
    <2>2. \A k \in 1 .. Len(as) : DoneInv(as[k], n, top)
        BY <1>10, <1>12, <1>13, <1>15
    <2>3. Ordered(as, DifferentDones)
        <3>1. ASSUME NEW i \in 1 .. Len(as), NEW k \in 1 .. Len(as), i < k
              PROVE  <<as[i], as[k]>> \in DifferentDones
            <4>1. i \in 1 .. m
                BY <1>12, <3>1
            <4>2. CASE k \in 1 .. m
                BY <1>11, <1>12, <2>1, <3>1, <4>1, <4>2 DEF Ordered
            <4>3. CASE k = m + 1
                BY <1>12, <1>15, <4>1, <4>3 DEF DifferentDones
            <4> QED BY <1>13, <4>2, <4>3
        <3> QED BY <3>1 DEF Ordered
    <2>4. \A i \in 1 .. Len(ks), k \in 1 .. Len(as) : ks[i].id # as[k].id
        BY <1>8, <1>12, <1>13, <2>1
    <2> QED BY <1>2, <2>1, <2>2, <2>3, <2>4 DEF SessionInv
<1>17. ASSUME NEW c \in Buffers(s2) PROVE c = d \/ c \in Buffers(s)
    <2>1. \/ \E k \in 1 .. Len(s2.tasks) : c = s2.tasks[k]
          \/ \E k \in 1 .. Len(s2.done) : c = s2.done[k]
        BY BufferIn
    <2>2. CASE \E k \in 1 .. Len(ks) : c = ks[k]
        <3>1. c \in Range(ts)
            BY <1>3, <1>8, <2>2
        <3> QED BY <1>2, <3>1 DEF Buffers
    <2>3. CASE \E k \in 1 .. Len(as) : c = as[k]
        <3>1. c = d \/ \E k \in 1 .. m : c = ds[k]
            BY <1>12, <1>13, <2>3
        <3>2. \A k \in 1 .. Len(s.done) : s.done[k] \in Buffers(s)
            BY <1>1, BufferIn
        <3> QED BY <1>2, <1>11, <3>1, <3>2
    <2> QED BY <1>2, <2>1, <2>2, <2>3
<1>18. d \in Buffers(s2)
    <2>1. m + 1 \in 1 .. Len(as)
        BY <1>12
    <2>2. \A k \in 1 .. Len(s2.done) : s2.done[k] \in Buffers(s2)
        BY BufferIn
    <2> QED BY <1>2, <1>12, <2>1, <2>2
<1>19. ASSUME NEW c \in Buffers(s), c.id # u.id PROVE c \in Buffers(s2)
    <2>1. \/ \E k \in 1 .. Len(s.tasks) : c = s.tasks[k]
          \/ \E k \in 1 .. Len(s.done) : c = s.done[k]
        BY <1>1, BufferIn
    <2>2. CASE \E k \in 1 .. Len(ts) : c = ts[k]
        <3>1. PICK k \in 1 .. Len(ts) : c = ts[k]
            BY <2>2
        <3>2. c \in S
            BY <1>3, <1>4, <1>19, <3>1, RangeOf
        <3>3. \E p \in 1 .. Len(Keep(ts, S)) : Keep(ts, S)[p] = ts[k]
            BY <1>4, <3>1, <3>2, KeepMembers
        <3>4. \E p \in 1 .. Len(s2.tasks) : s2.tasks[p] = c
            BY <1>2, <1>4, <3>1, <3>3
        <3> QED BY <3>4, BufferIn
    <2>3. CASE \E k \in 1 .. Len(ds) : c = ds[k]
        <3>1. PICK k \in 1 .. m : c = ds[k]
            BY <1>11, <2>3
        <3>2. k \in 1 .. Len(as)
            BY <1>12
        <3>3. as[k] = c
            BY <1>12, <3>1
        <3>4. \A i \in 1 .. Len(s2.done) : s2.done[i] \in Buffers(s2)
            BY BufferIn
        <3> QED BY <1>2, <3>2, <3>3, <3>4
    <2> QED BY <1>2, <2>1, <2>2, <2>3
<1>20. Known(s) \subseteq Known(s2)
    BY <1>18, <1>19 DEF Known
<1>21. HeardInv(s2, h, n, top)
    BY <1>1, <1>9, <1>17 DEF HeardInv
<1>22. ASSUME ToldInv(s, h) PROVE ToldInv(s2, h)
    <2>1. Keep(d.events, Finals) = Keep(u.events, Finals)
        <3>1. All(d.events, Finals) /\ d.events \in Seq(Events)
            BY <1>10, DoneParts DEF DoneInv
        <3> QED BY <3>1, KeepAll
    <2>2. All(h, OfThese(Known(s2)))
        BY <1>20, <1>22 DEF ToldInv, All, OfThese
    <2> QED BY <1>9, <1>17, <1>22, <2>1, <2>2 DEF ToldInv
<1> QED BY <1>16, <1>21, <1>22 DEF RunInv

\* A task that is left out may have changed before.
LEMMA WithoutChanged ==
    ASSUME NEW ts \in Seq(Tasks), NEW t \in Tasks, NEW u \in Range(ts), t.id = u.id
    PROVE  Without(Changed(ts, t), t) = Without(ts, u)
<1>1. PICK cs, S, R : /\ cs = Changed(ts, t)
                     /\ S = {x \in Range(cs) : x.id # t.id} /\ R = {x \in Range(ts) : x.id # u.id}
    OBVIOUS
<1>2. /\ cs \in Seq(Tasks) /\ Len(cs) = Len(ts)
      /\ \A k \in 1 .. Len(ts) : cs[k] = (IF ts[k].id = t.id THEN t ELSE ts[k]) /\ cs[k].id = ts[k].id
    <2>1. /\ Changed(ts, t) \in Seq(Tasks) /\ Len(Changed(ts, t)) = Len(ts)
          /\ \A k \in 1 .. Len(ts) :
                /\ Changed(ts, t)[k] = IF ts[k].id = t.id THEN t ELSE ts[k]
                /\ Changed(ts, t)[k].id = ts[k].id
        BY ChangedAt
    <2> QED BY <1>1, <2>1
<1>3. \A k \in 1 .. Len(ts) : Kept1(cs[k], S) = Kept1(ts[k], R)
    <2>1. ASSUME NEW k \in 1 .. Len(ts) PROVE Kept1(cs[k], S) = Kept1(ts[k], R)
        <3>1. cs[k] \in Range(cs) /\ ts[k] \in Range(ts)
            BY <1>2, RangeOf
        <3>2. CASE ts[k].id = u.id
            BY <1>1, <1>2, <3>2 DEF Kept1
        <3>3. CASE ts[k].id # u.id
            BY <1>1, <1>2, <3>1, <3>3 DEF Kept1
        <3> QED BY <3>2, <3>3
    <2> QED BY <2>1
<1>4. PICK B, C : B = Blocks(ts, R) /\ C = Blocks(cs, S)
    OBVIOUS
<1>5. /\ B \in Seq(Seq(Tasks)) /\ Len(B) = Len(ts) /\ Keep(ts, R) = FlattenSeq(B)
      /\ \A k \in 1 .. Len(ts) : B[k] = Kept1(ts[k], R)
    BY <1>4, KeepIs
<1>6. /\ C \in Seq(Seq(Tasks)) /\ Len(C) = Len(ts) /\ Keep(cs, S) = FlattenSeq(C)
      /\ \A k \in 1 .. Len(ts) : C[k] = Kept1(cs[k], S)
    BY <1>2, <1>4, KeepIs
<1>7. \A k \in 1 .. Len(B) : B[k] = C[k]
    BY <1>3, <1>5, <1>6
<1>8. B = C
    BY <1>5, <1>6, <1>7, SeqEqual
<1> QED BY <1>1, <1>5, <1>6, <1>8 DEF Without

\* _advance_completed_task.
LEMMA ClosedInv ==
    ASSUME NEW top \in Nat, NEW more \in Nat, top <= more, NEW n \in Nat,
           NEW s, NEW h, RunInv(s, h, n, top),
           NEW u \in Range(s.tasks), u.paused = FALSE,
           NEW b, Block(b, u.id, top, more), b # <<>>,
           NEW d \in Dones, d.id = u.id, d.replayed = TRUE, d.events = Keep(u.events \o b, Finals),
           NEW s2 \in Sessions, s2.tasks = Without(s.tasks, u), s2.done = Append(s.done, d)
    PROVE  RunInv(s2, (h \o Past(u)) \o b, n, more)
<1>1. s \in Sessions /\ s.tasks \in Seq(Tasks) /\ u \in Tasks
    <2>1. s \in Sessions
        BY DEF RunInv, SessionInv
    <2> QED BY <2>1, SessionParts, RangeOf
<1>2. PICK e : e = u.events
    OBVIOUS
<1>3. e \in Seq(Events) /\ b \in Seq(Events) /\ e \o b \in Seq(Events)
    <2>1. e \in Seq(Events) /\ b \in Seq(Events)
        BY <1>1, <1>2, TaskParts DEF Block
    <2> QED BY <2>1, ConcatProperties
<1>4. PICK t : t = [u EXCEPT !.replayed = TRUE, !.events = e \o b]
    OBVIOUS
<1>5. t \in Tasks /\ t.id = u.id /\ t.replayed = TRUE /\ t.paused = FALSE /\ t.events = e \o b
    BY <1>1, <1>3, <1>4 DEF Tasks
<1>6. PICK v : v = [s EXCEPT !.tasks = Changed(s.tasks, t)]
    OBVIOUS
<1>7. v \in Sessions /\ v.tasks = Changed(s.tasks, t) /\ v.done = s.done
    <2>1. Changed(s.tasks, t) \in Seq(Tasks)
        BY <1>1, <1>5, ChangedAt
    <2> QED BY <1>1, <1>6, <2>1 DEF Sessions
<1>8. Replaces(v, s, t)
    BY <1>7 DEF Replaces
<1>9. RunInv(v, (h \o Past(u)) \o b, n, more)
    BY <1>2, <1>5, <1>8, PublishInv
<1>10. t \in Range(v.tasks)
    BY <1>5, <1>8, ReplacedBuffers DEF RunInv
<1>11. s2.tasks = Without(v.tasks, t)
    BY <1>1, <1>5, <1>7, WithoutChanged
<1>12. d.id = t.id /\ d.replayed = t.replayed /\ d.events = Keep(t.events, Finals) /\ s2.done = Append(v.done, d)
    BY <1>2, <1>5, <1>7
<1> QED BY <1>9, <1>10, <1>11, <1>12, MovedInv

-----------------------------------------------------------------------------
(* What finished is told again at the start of a run, or told at its end.   *)

LEMMA ReplayedAt ==
    ASSUME NEW s \in Sessions
    PROVE  /\ Replayed(s) \in Sessions /\ Replayed(s).tasks = s.tasks /\ Replayed(s).queue = s.queue
           /\ Len(Replayed(s).done) = Len(s.done)
           /\ \A k \in 1 .. Len(s.done) :
                 /\ Replayed(s).done[k] \in Dones /\ Replayed(s).done[k].id = s.done[k].id
                 /\ Replayed(s).done[k].events = s.done[k].events /\ Replayed(s).done[k].replayed = TRUE
<1>1. PICK ds, m, rs : ds = s.done /\ m = Len(ds) /\ rs = [k \in DOMAIN ds |-> [ds[k] EXCEPT !.replayed = TRUE]]
    OBVIOUS
<1>2. m \in Nat /\ DOMAIN ds = 1 .. m /\ \A k \in 1 .. m : ds[k] \in Dones
    <2>1. ds \in Seq(Dones)
        BY <1>1, SessionParts
    <2> QED BY <1>1, <2>1, LenProperties
<1>3. \A k \in 1 .. m : /\ rs[k] \in Dones /\ rs[k].id = ds[k].id
                         /\ rs[k].events = ds[k].events /\ rs[k].replayed = TRUE
    BY <1>1, <1>2 DEF Dones
<1>4. rs \in [1 .. m -> Dones]
    BY <1>1, <1>2, <1>3
<1>5. rs \in Seq(Dones) /\ Len(rs) = m
    BY <1>2, <1>4, ListOfLength
<1>6. Replayed(s) = [s EXCEPT !.done = rs]
    BY <1>1 DEF Replayed
<1>7. /\ Replayed(s) \in Sessions /\ Replayed(s).tasks = s.tasks
      /\ Replayed(s).queue = s.queue /\ Replayed(s).done = rs
    BY <1>5, <1>6 DEF Sessions
<1> QED BY <1>1, <1>3, <1>5, <1>7

\* What is told of the finished tasks, task by task.
LEMMA UnreplayedIs ==
    ASSUME NEW n \in Nat, NEW top, NEW s, SessionInv(s, n, top)
    PROVE  \E bs : /\ bs \in Seq(Seq(Events)) /\ Len(bs) = Len(s.done) /\ Unreplayed(s) = FlattenSeq(bs)
                   /\ \A k \in 1 .. Len(s.done) :
                         /\ bs[k] = Past(s.done[k])
                         /\ Belongs(bs[k], s.done[k].id, top) /\ Ordered(bs[k], Timely)
                         /\ All(bs[k], Finals) /\ s.done[k].id <= n
<1>1. PICK ds, m, bs : ds = s.done /\ m = Len(ds) /\ bs = [k \in DOMAIN ds |-> Past(ds[k])]
    OBVIOUS
<1>2. s \in Sessions /\ ds \in Seq(Dones)
    <2>1. s \in Sessions
        BY DEF SessionInv
    <2> QED BY <1>1, <2>1, SessionParts
<1>3. m \in Nat /\ DOMAIN ds = 1 .. m /\ \A k \in 1 .. m : ds[k] \in Dones /\ DoneInv(ds[k], n, top)
    BY <1>1, <1>2, LenProperties DEF SessionInv
<1>4. \A k \in 1 .. m : /\ Past(ds[k]) \in Seq(Events) /\ Belongs(Past(ds[k]), ds[k].id, top)
                         /\ Ordered(Past(ds[k]), Timely) /\ All(Past(ds[k]), Finals) /\ ds[k].id <= n
    <2>1. ASSUME NEW k \in 1 .. m
          PROVE  /\ Past(ds[k]) \in Seq(Events) /\ Belongs(Past(ds[k]), ds[k].id, top)
                 /\ Ordered(Past(ds[k]), Timely) /\ All(Past(ds[k]), Finals) /\ ds[k].id <= n
        <3>1. /\ ds[k].events \in Seq(Events) /\ Belongs(ds[k].events, ds[k].id, top)
              /\ Ordered(ds[k].events, Timely) /\ All(ds[k].events, Finals) /\ ds[k].id <= n
            BY <1>3, DoneParts DEF DoneInv, Buffer
        <3>2. CASE ds[k].replayed
            <4>1. Past(ds[k]) = <<>> /\ Len(<<>>) = 0
                BY <3>2, EmptySeq DEF Past
            <4> QED BY <3>1, <4>1 DEF Belongs, Ordered, All
        <3>3. CASE ~ds[k].replayed
            BY <3>1, <3>3 DEF Past
        <3> QED BY <3>2, <3>3
    <2> QED BY <2>1
<1>5. bs \in [1 .. m -> Seq(Events)] /\ \A k \in 1 .. m : bs[k] = Past(ds[k])
    BY <1>1, <1>3, <1>4
<1>6. bs \in Seq(Seq(Events)) /\ Len(bs) = m
    BY <1>3, <1>5, ListOfLength
<1>7. Unreplayed(s) = FlattenSeq(bs)
    BY <1>1 DEF Unreplayed, Past
<1> QED BY <1>1, <1>4, <1>5, <1>6, <1>7

LEMMA UnreplayedTold ==
    ASSUME NEW n \in Nat, NEW top \in Nat, NEW s, SessionInv(s, n, top)
    PROVE  /\ InOrder(Unreplayed(s), top) /\ Closed(Unreplayed(s)) /\ All(Unreplayed(s), OfFirst(n))
           /\ \A p \in 1 .. Len(Unreplayed(s)) : \E k \in 1 .. Len(s.done) :
                 ~s.done[k].replayed /\ Unreplayed(s)[p].task = s.done[k].id
           /\ \A k \in 1 .. Len(s.done) : ~s.done[k].replayed =>
                 Keep(Unreplayed(s), Of(s.done[k].id)) = s.done[k].events
<1>1. PICK ds, F, m : ds = s.done /\ F = Unreplayed(s) /\ m = Len(ds)
    OBVIOUS
<1>2. PICK bs : /\ bs \in Seq(Seq(Events)) /\ Len(bs) = m /\ F = FlattenSeq(bs)
                /\ \A k \in 1 .. m : /\ bs[k] = Past(ds[k])
                                    /\ Belongs(bs[k], ds[k].id, top) /\ Ordered(bs[k], Timely)
                                    /\ All(bs[k], Finals) /\ ds[k].id <= n
    BY <1>1, UnreplayedIs
<1>3. F \in Seq(Events)
    <2>1. <<>> \in Seq(Events)
        BY EmptySeq
    <2> QED BY <1>2, <2>1, FlattenAppend
<1>4. \A k \in 1 .. m : bs[k] \in Seq(Events)
    BY <1>2, ElementOfSeq
<1>5. \A k, l \in 1 .. m : k # l => ds[k].id # ds[l].id
    <2>1. \A k, l \in 1 .. m : k < l => ds[k].id # ds[l].id
        BY <1>1 DEF SessionInv, Ordered, DifferentDones
    <2> QED BY <2>1
<1>6. ASSUME NEW p \in 1 .. Len(F)
      PROVE  \E k \in 1 .. m : /\ ~ds[k].replayed /\ F[p].task = ds[k].id /\ F[p] \in Finals
                              /\ F[p].id <= top /\ F[p].task <= n
    <2>1. PICK c, o : Places(c, o, bs, F)
        BY <1>2, FlattenPlaces
    <2>2. c[p] \in 1 .. m /\ o[p] \in 1 .. Len(bs[c[p]]) /\ F[p] = bs[c[p]][o[p]]
        BY <1>2, <2>1 DEF Places
    <2>3. PICK k \in 1 .. m : k = c[p]
        BY <2>2
    <2>4. F[p].task = ds[k].id /\ F[p].id <= top /\ F[p] \in Finals
        BY <1>2, <2>2, <2>3 DEF Belongs, All
    <2>5. ~ds[k].replayed
        <3>1. ASSUME ds[k].replayed PROVE FALSE
            <4>1. bs[k] = <<>> /\ Len(<<>>) = 0
                BY <1>2, <3>1, EmptySeq DEF Past
            <4> QED BY <2>2, <2>3, <4>1
        <3> QED BY <3>1
    <2> QED BY <1>2, <2>4, <2>5
<1>7. All(F, Finals) /\ All(F, OfFirst(n)) /\ Below(F, top)
    <2>1. \A p \in 1 .. Len(F) : F[p] \in Events
        BY <1>3, EventAt
    <2> QED BY <1>6, <2>1 DEF All, OfFirst, Below
<1>8. Ordered(F, Timely)
    <2>1. ASSUME NEW k \in 1 .. m, NEW l \in 1 .. m, k < l,
                 NEW i \in 1 .. Len(bs[k]), NEW j \in 1 .. Len(bs[l])
          PROVE  <<bs[k][i], bs[l][j]>> \in Timely
        <3>1. bs[k][i] \in Events /\ bs[l][j] \in Events
            BY <1>4, EventAt
        <3>2. bs[k][i].task = ds[k].id /\ bs[l][j].task = ds[l].id
            BY <1>2 DEF Belongs
        <3>3. ds[k].id # ds[l].id
            BY <1>5, <2>1
        <3> QED BY <3>1, <3>2, <3>3 DEF Timely
    <2> QED BY <1>2, <2>1, OrderedFlatten
<1>9. InOrder(F, top) /\ Closed(F)
    BY <1>3, <1>7, <1>8, InOrderOfFinals, FinalsClosed
<1>10. ASSUME NEW k \in 1 .. m, ~ds[k].replayed PROVE Keep(F, Of(ds[k].id)) = ds[k].events
    <2>1. Only(bs, Of(ds[k].id), k)
        <3>1. ASSUME NEW j \in 1 .. m, j # k PROVE None(bs[j], Of(ds[k].id))
            BY <1>2, <1>4, <1>5, <3>1, OfOther
        <3> QED BY <1>2, <3>1 DEF Only
    <2>2. Keep(FlattenSeq(bs), Of(ds[k].id)) = Keep(bs[k], Of(ds[k].id))
        BY <1>2, <2>1, KeepFlatten
    <2>3. Keep(bs[k], Of(ds[k].id)) = bs[k]
        BY <1>2, <1>4, OfOwn
    <2>4. bs[k] = ds[k].events
        BY <1>2, <1>10 DEF Past
    <2> QED BY <1>2, <2>2, <2>3, <2>4
<1> QED BY <1>1, <1>6, <1>7, <1>9, <1>10

LEMMA DoneTold ==
    ASSUME NEW n \in Nat, NEW top \in Nat, NEW s, NEW h, RunInv(s, h, n, top)
    PROVE  RunInv(Replayed(s), h \o Unreplayed(s), n, top)
<1>1. SessionInv(s, n, top) /\ HeardInv(s, h, n, top) /\ s \in Sessions /\ h \in Seq(Events)
    BY DEF RunInv, SessionInv, HeardInv, InOrder
<1>2. PICK r, F, ds : r = Replayed(s) /\ F = Unreplayed(s) /\ ds = s.done
    OBVIOUS
<1>3. /\ r \in Sessions /\ r.tasks = s.tasks /\ Len(r.done) = Len(ds)
      /\ \A k \in 1 .. Len(ds) : /\ r.done[k] \in Dones /\ r.done[k].id = ds[k].id
                                 /\ r.done[k].events = ds[k].events /\ r.done[k].replayed = TRUE
    BY <1>1, <1>2, ReplayedAt
<1>4. /\ InOrder(F, top) /\ Closed(F) /\ All(F, OfFirst(n)) /\ F \in Seq(Events)
      /\ \A p \in 1 .. Len(F) : \E k \in 1 .. Len(ds) : ~ds[k].replayed /\ F[p].task = ds[k].id
      /\ \A k \in 1 .. Len(ds) : ~ds[k].replayed => Keep(F, Of(ds[k].id)) = ds[k].events
    BY <1>1, <1>2, UnreplayedTold DEF InOrder
<1>5. /\ \A k \in 1 .. Len(ds) : DoneInv(ds[k], n, top) /\ ds[k] \in Buffers(s) /\ ds[k] \in Dones
      /\ Ordered(ds, DifferentDones)
      /\ \A j \in 1 .. Len(s.tasks), k \in 1 .. Len(ds) : s.tasks[j].id # ds[k].id
    BY <1>1, <1>2, BufferIn DEF SessionInv
<1>6. SessionInv(r, n, top)
    <2>1. \A k \in 1 .. Len(r.done) : DoneInv(r.done[k], n, top)
        BY <1>3, <1>5 DEF DoneInv, Buffer
    <2>2. Ordered(r.done, DifferentDones)
        <3>1. ASSUME NEW i \in 1 .. Len(ds), NEW j \in 1 .. Len(ds), i < j
              PROVE  <<r.done[i], r.done[j]>> \in DifferentDones
            <4>1. ds[i].id # ds[j].id
                BY <1>5, <3>1 DEF Ordered, DifferentDones
            <4> QED BY <1>3, <4>1 DEF DifferentDones
        <3> QED BY <1>3, <3>1 DEF Ordered
    <2>3. ASSUME NEW j \in 1 .. Len(r.tasks), NEW k \in 1 .. Len(r.done)
          PROVE  r.tasks[j].id # r.done[k].id
        <3>1. k \in 1 .. Len(ds) /\ j \in 1 .. Len(s.tasks) /\ r.tasks[j] = s.tasks[j]
            BY <1>3
        <3>2. r.done[k].id = ds[k].id
            BY <1>3, <3>1
        <3>3. s.tasks[j].id # ds[k].id
            BY <1>5, <3>1
        <3> QED BY <3>1, <3>2, <3>3
    <2> QED BY <1>1, <1>3, <2>1, <2>2, <2>3 DEF SessionInv
<1>7. ASSUME NEW k \in 1 .. Len(ds), ds[k].replayed PROVE None(F, Of(ds[k].id))
    <2>1. ASSUME NEW p \in 1 .. Len(F), F[p].task = ds[k].id PROVE FALSE
        <3>1. PICK j \in 1 .. Len(ds) : ~ds[j].replayed /\ F[p].task = ds[j].id
            BY <1>4
        <3>2. ds[j] = ds[k]
            BY <1>1, <1>5, <2>1, <3>1, NoTwins
        <3> QED BY <1>7, <3>1, <3>2
    <2> QED BY <2>1 DEF None, Of
<1>8. ASSUME NEW j \in 1 .. Len(s.tasks) PROVE None(F, Of(s.tasks[j].id))
    BY <1>4, <1>5 DEF None, Of
<1>9. HeardInv(r, h \o F, n, top)
    <2>1. ASSUME NEW i \in 1 .. Len(h), NEW p \in 1 .. Len(F) PROVE h[i].task # F[p].task
        <3>1. PICK k \in 1 .. Len(ds) : ~ds[k].replayed /\ F[p].task = ds[k].id
            BY <1>4
        <3>2. None(h, Of(ds[k].id))
            BY <1>1, <1>5, <3>1 DEF HeardInv
        <3>3. h[i] \in Events
            BY <1>1, EventAt
        <3>4. h[i] \notin Of(ds[k].id)
            BY <3>2 DEF None
        <3>5. h[i] \in Of(h[i].task)
            BY <3>3, IsOf
        <3>6. h[i].task # ds[k].id
            BY <3>4, <3>5
        <3> QED BY <3>1, <3>6
    <2>2. InOrder(h \o F, top)
        <3>1. InOrder(h, top) /\ top <= top
            BY <1>1 DEF HeardInv
        <3> QED BY <1>4, <2>1, <3>1, InOrderConcat
    <2>3. Closed(h \o F) /\ All(h \o F, OfFirst(n))
        BY <1>1, <1>4, ClosedConcat, AllConcat DEF HeardInv
    <2>4. ASSUME NEW c \in Buffers(r), ~c.replayed PROVE None(h \o F, Of(c.id))
        <3>1. (\E k \in 1 .. Len(r.tasks) : c = r.tasks[k]) \/ (\E k \in 1 .. Len(r.done) : c = r.done[k])
            BY <1>3, BufferIn
        <3>2. PICK k \in 1 .. Len(s.tasks) : c = s.tasks[k]
            BY <1>3, <2>4, <3>1
        <3>3. None(h, Of(c.id))
            BY <1>1, <2>4, <3>2, BufferIn DEF HeardInv
        <3> QED BY <1>1, <1>4, <1>8, <3>2, <3>3, NoneConcat
    <2> QED BY <2>2, <2>3, <2>4 DEF HeardInv
<1>10. ASSUME ToldInv(s, h) PROVE ToldInv(r, h \o F)
    <2>1. ASSUME NEW c \in Buffers(r), c.replayed
          PROVE  Keep(Keep(h \o F, Of(c.id)), Finals) = Keep(c.events, Finals)
        <3>1. (\E k \in 1 .. Len(r.tasks) : c = r.tasks[k]) \/ (\E k \in 1 .. Len(r.done) : c = r.done[k])
            BY <1>3, BufferIn
        <3>2. CASE \E k \in 1 .. Len(r.tasks) : c = r.tasks[k]
            <4>1. PICK k \in 1 .. Len(s.tasks) : c = s.tasks[k]
                BY <1>3, <3>2
            <4>2. c \in Buffers(s) /\ None(F, Of(c.id))
                BY <1>1, <1>8, <4>1, BufferIn
            <4>3. Keep(Keep(h \o F, Of(c.id)), Finals) = Keep(Keep(h, Of(c.id)), Finals)
                BY <1>1, <1>4, <4>2, ToldOther
            <4> QED BY <1>10, <2>1, <4>2, <4>3 DEF ToldInv
        <3>3. CASE \E k \in 1 .. Len(r.done) : c = r.done[k]
            <4>1. PICK k \in 1 .. Len(ds) : c = r.done[k]
                BY <1>3, <3>3
            <4>2. PICK d : d = ds[k]
                OBVIOUS
            <4>3. d \in Buffers(s) /\ c.id = d.id /\ c.events = d.events /\ d.events \in Seq(Events)
                BY <1>3, <1>5, <4>1, <4>2, DoneParts
            <4>4. CASE d.replayed
                <5>1. None(F, Of(d.id))
                    BY <1>7, <4>2, <4>4
                <5>2. Keep(Keep(h \o F, Of(d.id)), Finals) = Keep(Keep(h, Of(d.id)), Finals)
                    BY <1>1, <1>4, <5>1, ToldOther
                <5> QED BY <1>10, <4>3, <4>4, <5>2 DEF ToldInv
            <4>5. CASE ~d.replayed
                <5>1. Keep(F, Of(d.id)) = d.events
                    BY <1>4, <4>2, <4>5
                <5>2. Keep(h, Of(d.id)) = <<>>
                    BY <1>1, <4>3, <4>5, KeepNone DEF HeardInv
                <5>3. Keep(h \o F, Of(d.id)) = Keep(h, Of(d.id)) \o Keep(F, Of(d.id))
                    BY <1>1, <1>4, KeepConcat
                <5>4. Keep(h \o F, Of(d.id)) = d.events
                    BY <4>3, <5>1, <5>2, <5>3, ConcatEmptySeq
                <5> QED BY <4>3, <5>4
            <4> QED BY <4>4, <4>5
        <3> QED BY <3>1, <3>2, <3>3
    <2>2. Known(s) \subseteq Known(r)
        <3>1. ASSUME NEW b \in Buffers(s) PROVE b.id \in Known(r)
            <4>1. (\E k \in 1 .. Len(s.tasks) : b = s.tasks[k]) \/ (\E k \in 1 .. Len(s.done) : b = s.done[k])
                BY <1>1, BufferIn
            <4>2. CASE \E k \in 1 .. Len(s.tasks) : b = s.tasks[k]
                <5>1. b \in Buffers(r)
                    BY <1>3, <4>2, BufferIn
                <5> QED BY <5>1 DEF Known
            <4>3. CASE \E k \in 1 .. Len(ds) : b = ds[k]
                <5>1. PICK k \in 1 .. Len(ds) : b = ds[k]
                    BY <4>3
                <5>2. r.done[k] \in Buffers(r) /\ r.done[k].id = b.id
                    BY <1>3, <5>1, BufferIn
                <5> QED BY <5>2 DEF Known
            <4> QED BY <1>2, <4>1, <4>2, <4>3
        <3> QED BY <3>1 DEF Known
    <2>3. All(h \o F, OfThese(Known(r)))
        <3>1. All(h, OfThese(Known(r)))
            BY <1>10, <2>2 DEF ToldInv, All, OfThese
        <3>2. ASSUME NEW p \in 1 .. Len(F) PROVE F[p] \in OfThese(Known(r))
            <4>1. PICK k \in 1 .. Len(ds) : F[p].task = ds[k].id
                BY <1>4
            <4>2. ds[k].id \in Known(s)
                BY <1>5 DEF Known
            <4>3. F[p] \in Events
                BY <1>4, EventAt
            <4> QED BY <2>2, <4>1, <4>2, <4>3 DEF OfThese
        <3>3. All(F, OfThese(Known(r)))
            BY <3>2 DEF All
        <3> QED BY <1>1, <1>4, <3>1, <3>3, AllConcat
    <2> QED BY <2>1, <2>3 DEF ToldInv
<1> QED BY <1>2, <1>6, <1>9, <1>10 DEF RunInv

-----------------------------------------------------------------------------
(* What the store hands out, and what is left when a session is finished.   *)

LEMMA FreshTask ==
    ASSUME NEW n, NEW top, NEW b \in Tasks, TaskInv(b, n, top), All(b.events, Finals)
    PROVE  /\ Fresh(b) \in Tasks /\ Fresh(b).id = b.id /\ Fresh(b).events = b.events
           /\ TaskInv(Fresh(b), n, top) /\ (~Kept => ~Fresh(b).replayed)
<1>1. CASE Kept
    BY <1>1 DEF Fresh
<1>2. CASE ~Kept
    <2>1. PICK f : f = Fresh(b)
        OBVIOUS
    <2>2. f = [b EXCEPT !.replayed = FALSE]
        BY <1>2, <2>1 DEF Fresh
    <2>3. f \in Tasks /\ f.id = b.id /\ f.events = b.events /\ f.paused = b.paused /\ f.replayed = FALSE
        BY <2>2 DEF Tasks
    <2>4. TaskInv(f, n, top)
        BY <2>3 DEF TaskInv, Buffer
    <2> QED BY <2>1, <2>3, <2>4
<1> QED BY <1>1, <1>2

LEMMA FreshDone ==
    ASSUME NEW n, NEW top, NEW b \in Dones, DoneInv(b, n, top)
    PROVE  /\ Fresh(b) \in Dones /\ Fresh(b).id = b.id
           /\ DoneInv(Fresh(b), n, top) /\ (~Kept => ~Fresh(b).replayed)
<1>1. CASE Kept
    BY <1>1 DEF Fresh
<1>2. CASE ~Kept
    <2>1. PICK f : f = Fresh(b)
        OBVIOUS
    <2>2. f = [b EXCEPT !.replayed = FALSE]
        BY <1>2, <2>1 DEF Fresh
    <2>3. f \in Dones /\ f.id = b.id /\ f.events = b.events /\ f.replayed = FALSE
        BY <2>2 DEF Dones
    <2>4. DoneInv(f, n, top)
        BY <2>3 DEF DoneInv, Buffer
    <2> QED BY <2>1, <2>3, <2>4
<1> QED BY <1>1, <1>2

LEMMA RestoredInv ==
    ASSUME NEW n, NEW top, NEW s, SavedInv(s, n, top)
    PROVE  SavedInv(Restored(s), n, top) /\ (~Kept => \A b \in Buffers(Restored(s)) : ~b.replayed)
<1>1. PICK ts, ds, us, es :
          /\ ts = s.tasks /\ ds = s.done
          /\ us = [k \in DOMAIN ts |-> Fresh(ts[k])] /\ es = [k \in DOMAIN ds |-> Fresh(ds[k])]
    OBVIOUS
<1>2. SessionInv(s, n, top) /\ s \in Sessions /\ ts \in Seq(Tasks) /\ ds \in Seq(Dones)
    <2>1. SessionInv(s, n, top) /\ s \in Sessions
        BY DEF SavedInv, SessionInv
    <2> QED BY <1>1, <2>1, SessionParts
<1>3. /\ Len(ts) \in Nat /\ DOMAIN ts = 1 .. Len(ts)
      /\ \A k \in 1 .. Len(ts) : ts[k] \in Tasks /\ TaskInv(ts[k], n, top) /\ All(ts[k].events, Finals)
    BY <1>1, <1>2, LenProperties DEF SavedInv, SessionInv
<1>4. /\ Len(ds) \in Nat /\ DOMAIN ds = 1 .. Len(ds)
      /\ \A k \in 1 .. Len(ds) : ds[k] \in Dones /\ DoneInv(ds[k], n, top) /\ All(ds[k].events, Finals)
    BY <1>1, <1>2, LenProperties DEF SessionInv, DoneInv
<1>5. \A k \in 1 .. Len(ts) :
          /\ us[k] \in Tasks /\ us[k].id = ts[k].id /\ us[k].events = ts[k].events
          /\ TaskInv(us[k], n, top) /\ (~Kept => ~us[k].replayed)
    <2>1. ASSUME NEW k \in 1 .. Len(ts)
          PROVE  /\ us[k] \in Tasks /\ us[k].id = ts[k].id /\ us[k].events = ts[k].events
                 /\ TaskInv(us[k], n, top) /\ (~Kept => ~us[k].replayed)
        <3>1. us[k] = Fresh(ts[k])
            BY <1>1, <1>3
        <3>2. ts[k] \in Tasks /\ TaskInv(ts[k], n, top) /\ All(ts[k].events, Finals)
            BY <1>3
        <3> QED BY <3>1, <3>2, FreshTask
    <2> QED BY <2>1
<1>6. \A k \in 1 .. Len(ds) :
          /\ es[k] \in Dones /\ es[k].id = ds[k].id
          /\ DoneInv(es[k], n, top) /\ (~Kept => ~es[k].replayed)
    BY <1>1, <1>4, FreshDone
<1>7. us \in Seq(Tasks) /\ Len(us) = Len(ts)
    <2>1. us \in [1 .. Len(ts) -> Tasks]
        BY <1>1, <1>3, <1>5
    <2> QED BY <1>3, <2>1, ListOfLength
<1>8. es \in Seq(Dones) /\ Len(es) = Len(ds)
    <2>1. es \in [1 .. Len(ds) -> Dones]
        BY <1>1, <1>4, <1>6
    <2> QED BY <1>4, <2>1, ListOfLength
<1>9. PICK r : r = Restored(s)
    OBVIOUS
<1>10. r \in Sessions /\ r.tasks = us /\ r.done = es
    <2>1. r = [s EXCEPT !.tasks = us, !.done = es]
        BY <1>1, <1>9 DEF Restored
    <2> QED BY <1>2, <1>7, <1>8, <2>1 DEF Sessions
<1>11. Ordered(us, DifferentTasks)
    <2>1. ASSUME NEW i \in 1 .. Len(ts), NEW j \in 1 .. Len(ts), i < j
          PROVE  <<us[i], us[j]>> \in DifferentTasks
        <3>1. ts[i].id # ts[j].id
            BY <1>1, <1>2, <2>1 DEF SessionInv, Ordered, DifferentTasks
        <3> QED BY <1>5, <3>1 DEF DifferentTasks
    <2> QED BY <1>7, <2>1 DEF Ordered
<1>12. Ordered(es, DifferentDones)
    <2>1. ASSUME NEW i \in 1 .. Len(ds), NEW j \in 1 .. Len(ds), i < j
          PROVE  <<es[i], es[j]>> \in DifferentDones
        <3>1. ds[i].id # ds[j].id
            BY <1>1, <1>2, <2>1 DEF SessionInv, Ordered, DifferentDones
        <3> QED BY <1>6, <3>1 DEF DifferentDones
    <2> QED BY <1>8, <2>1 DEF Ordered
<1>13. ASSUME NEW j \in 1 .. Len(us), NEW k \in 1 .. Len(es) PROVE us[j].id # es[k].id
    <2>1. j \in 1 .. Len(ts) /\ k \in 1 .. Len(ds)
        BY <1>7, <1>8
    <2>2. us[j].id = ts[j].id /\ es[k].id = ds[k].id
        BY <1>5, <1>6, <2>1
    <2>3. ts[j].id # ds[k].id
        BY <1>1, <1>2, <2>1 DEF SessionInv
    <2> QED BY <2>2, <2>3
<1>14. SessionInv(r, n, top)
    BY <1>5, <1>6, <1>7, <1>8, <1>10, <1>11, <1>12, <1>13 DEF SessionInv
<1>15. \A k \in 1 .. Len(r.tasks) : All(r.tasks[k].events, Finals)
    BY <1>3, <1>5, <1>7, <1>10
<1>16. ASSUME ~Kept, NEW b \in Buffers(r) PROVE ~b.replayed
    <2>1. (\E k \in 1 .. Len(us) : b = us[k]) \/ (\E k \in 1 .. Len(es) : b = es[k])
        BY <1>10, BufferIn
    <2> QED BY <1>5, <1>6, <1>7, <1>8, <1>16, <2>1
<1> QED BY <1>9, <1>14, <1>15, <1>16 DEF SavedInv

LEMMA CleanedIs ==
    ASSUME NEW s \in Sessions
    PROVE  /\ Cleaned(s) \in Sessions /\ Cleaned(s).done = <<>>
           /\ Cleaned(s).tasks = Keep(s.tasks, {t \in Range(s.tasks) : ~Running(t)})
<1>1. PICK ks : ks = Keep(s.tasks, {t \in Range(s.tasks) : ~Running(t)})
    OBVIOUS
<1>2. ks \in Seq(Tasks) /\ <<>> \in Seq(Dones) /\ <<>> \in Seq(Queued)
    BY <1>1, SessionParts, KeepTyped, EmptySeq
<1>3. Cleaned(s) = [s EXCEPT !.tasks = ks, !.done = <<>>, !.queue = <<>>]
    BY <1>1 DEF Cleaned
<1> QED BY <1>1, <1>2, <1>3 DEF Sessions

LEMMA LoadedInv ==
    ASSUME NEW n, NEW top, NEW s, SavedInv(s, n, top), NEW resume \in BOOLEAN
    PROVE  /\ SavedInv(Loaded(s, resume), n, top)
           /\ ~Kept => \A b \in Buffers(Loaded(s, resume)) : ~b.replayed
<1>1. PICK r : r = Restored(s)
    OBVIOUS
<1>2. SavedInv(r, n, top) /\ SessionInv(r, n, top) /\ r \in Sessions
    <2>1. SavedInv(r, n, top)
        BY <1>1, RestoredInv
    <2> QED BY <2>1 DEF SavedInv, SessionInv
<1>3. ~Kept => \A b \in Buffers(r) : ~b.replayed
    BY <1>1, RestoredInv
<1>4. PICK S, v : S = {t \in Range(r.tasks) : t.events # <<>> /\ t.events[1].kind = "input"}
                  /\ v = [r EXCEPT !.tasks = Keep(r.tasks, S)]
    OBVIOUS
<1>5. v \in Sessions /\ v.tasks = Keep(r.tasks, S) /\ v.done = r.done
    <2>1. Keep(r.tasks, S) \in Seq(Tasks)
        BY <1>2, SessionParts, KeepTyped
    <2> QED BY <1>2, <1>4, <2>1 DEF Sessions
<1>6. SavedInv(v, n, top) /\ SessionInv(v, n, top) /\ Buffers(v) \subseteq Buffers(r)
    BY <1>2, <1>5, FewerTasks
<1>7. SavedInv(Cleaned(v), n, top) /\ Buffers(Cleaned(v)) \subseteq Buffers(v)
    <2>1. PICK c : c = Cleaned(v)
        OBVIOUS
    <2>2. PICK R : c.tasks = Keep(v.tasks, R)
        BY <1>5, <2>1, CleanedIs
    <2>3. c \in Sessions /\ c.done = <<>>
        BY <1>5, <2>1, CleanedIs
    <2> QED BY <1>6, <2>1, <2>2, <2>3, FewerTasks
<1>8. Loaded(s, resume) = IF resume THEN v ELSE Cleaned(v)
    BY <1>1, <1>4 DEF Loaded
<1> QED BY <1>3, <1>6, <1>7, <1>8

LEMMA NothingHeard ==
    ASSUME NEW n, NEW top, NEW s, SavedInv(s, n, top), ~Kept => \A b \in Buffers(s) : ~b.replayed
    PROVE  RunInv(s, <<>>, n, top)
<1>1. <<>> \in Seq(Events) /\ Len(<<>>) = 0 /\ 1 .. 0 = {}
    BY EmptySeq
<1>2. InOrder(<<>>, top)
    BY <1>1 DEF InOrder, Ordered, Together, Below
<1>3. HeardInv(s, <<>>, n, top)
    BY <1>1, <1>2 DEF HeardInv, Closed, All, None
<1>4. ~Kept => ToldInv(s, <<>>)
    BY <1>1 DEF ToldInv, All
<1> QED BY <1>3, <1>4 DEF RunInv, SavedInv

-----------------------------------------------------------------------------
(* What the steps tell.                                                     *)

LEMMA BlockNothing ==
    ASSUME NEW id, NEW top, NEW more
    PROVE  Block(<<>>, id, top, more)
<1>1. <<>> \in Seq(Events) /\ Len(<<>>) = 0 /\ 1 .. 0 = {}
    BY EmptySeq
<1> QED BY <1>1 DEF Block, Belongs, Ordered, Closed

LEMMA BlockFinal ==
    ASSUME NEW t, t.id \in Nat, NEW id \in Nat, NEW top \in Nat, top < id, NEW kind \in Kinds
    PROVE  /\ Block(Final(t, id, kind), t.id, top, id) /\ Final(t, id, kind) \in Seq(Events)
           /\ Final(t, id, kind) # <<>> /\ Len(Final(t, id, kind)) = 1
           /\ Final(t, id, kind)[1].kind = kind /\ Final(t, id, kind)[1].phase = "final"
           /\ Final(t, id, kind)[1].task = t.id /\ Final(t, id, kind)[1].id = id
<1>1. PICK e, b : e = Event(t, id, kind, "final") /\ b = <<e>>
    OBVIOUS
<1>2. e \in Events /\ e.task = t.id /\ e.id = id /\ e.kind = kind /\ e.phase = "final"
    BY <1>1, EventTyped
<1>3. b \in Seq(Events) /\ Len(b) = 1 /\ b[1] = e /\ b # <<>>
    BY <1>1, <1>2
<1>4. \A k \in 1 .. Len(b) : k = 1
    BY <1>3
<1>5. Belongs(b, t.id, id) /\ Ordered(b, Timely) /\ Closed(b) /\ \A k \in 1 .. Len(b) : top < b[k].id
    <2>1. Belongs(b, t.id, id)
        BY <1>2, <1>3, <1>4 DEF Belongs
    <2>2. Ordered(b, Timely)
        BY <1>4 DEF Ordered
    <2>3. Closed(b)
        BY <1>2, <1>3, <1>4 DEF Closed
    <2> QED BY <1>2, <1>3, <1>4, <2>1, <2>2, <2>3
<1> QED BY <1>1, <1>2, <1>3, <1>5 DEF Block, Final

LEMMA BlockChain ==
    ASSUME NEW t, t.id \in Nat, NEW id \in Nat, NEW top \in Nat, top < id, NEW kind \in Kinds
    PROVE  /\ Block(<<Event(t, id, kind, "started")>> \o Chain(t, id, kind), t.id, top, id)
           /\ Chain(t, id, kind) \in Seq(Events) /\ Len(Chain(t, id, kind)) = 2
<1>1. PICK e, f, g, b : /\ e = Event(t, id, kind, "started") /\ f = Event(t, id, kind, "end")
                        /\ g = Event(t, id, kind, "final") /\ b = <<e>> \o Chain(t, id, kind)
    OBVIOUS
<1>2. /\ e \in Events /\ e.task = t.id /\ e.id = id /\ e.kind = kind /\ e.phase = "started"
      /\ f \in Events /\ f.task = t.id /\ f.id = id /\ f.kind = kind /\ f.phase = "end"
      /\ g \in Events /\ g.task = t.id /\ g.id = id /\ g.kind = kind /\ g.phase = "final"
    BY <1>1, EventTyped
<1>3. Chain(t, id, kind) = <<f, g>> /\ <<f, g>> \in Seq(Events) /\ Len(<<f, g>>) = 2
    BY <1>1, <1>2 DEF Chain
<1>4. b \in Seq(Events) /\ Len(b) = 3 /\ b[1] = e /\ b[2] = f /\ b[3] = g
    BY <1>1, <1>2, <1>3
<1>5. \A k \in 1 .. Len(b) : k = 1 \/ k = 2 \/ k = 3
    BY <1>4
<1>6. \A k \in 1 .. Len(b) : b[k].task = t.id /\ b[k].id = id /\ b[k].kind = kind
    BY <1>2, <1>4, <1>5
<1>7. Belongs(b, t.id, id) /\ \A k \in 1 .. Len(b) : top < b[k].id
    BY <1>6 DEF Belongs
<1>8. Closed(b)
    <2>1. 3 \in 1 .. Len(b) /\ b[3].phase = "final"
        BY <1>2, <1>4
    <2> QED BY <1>6, <2>1 DEF Closed
<1>9. Ordered(b, Timely)
    <2>1. Rank(e) = 1 /\ Rank(f) = 2 /\ Rank(g) = 3
        BY <1>2 DEF Rank
    <2>2. <<e, f>> \in Timely /\ <<e, g>> \in Timely /\ <<f, g>> \in Timely
        BY <1>2, <2>1 DEF Timely
    <2>3. ASSUME NEW i \in 1 .. Len(b), NEW j \in 1 .. Len(b), i < j PROVE <<b[i], b[j]>> \in Timely
        <3>1. (i = 1 /\ j = 2) \/ (i = 1 /\ j = 3) \/ (i = 2 /\ j = 3)
            BY <1>5, <2>3
        <3> QED BY <1>4, <2>2, <3>1
    <2> QED BY <2>3 DEF Ordered
<1> QED BY <1>1, <1>3, <1>4, <1>7, <1>8, <1>9 DEF Block

LEMMA BlockConcat ==
    ASSUME NEW top \in Nat, NEW mid \in Nat, NEW more \in Nat, top <= mid, mid <= more, NEW id,
           NEW a, Block(a, id, top, mid), NEW b, Block(b, id, mid, more)
    PROVE  Block(a \o b, id, top, more)
<1>1. /\ a \in Seq(Events) /\ Belongs(a, id, mid) /\ Ordered(a, Timely) /\ Closed(a)
      /\ \A k \in 1 .. Len(a) : top < a[k].id
      /\ b \in Seq(Events) /\ Closed(b) /\ \A k \in 1 .. Len(b) : mid < b[k].id
    BY DEF Block
<1>2. Belongs(a \o b, id, more) /\ Ordered(a \o b, Timely)
    BY <1>1, Grows
<1>3. a \o b \in Seq(Events) /\ Closed(a \o b)
    BY <1>1, ConcatAt, ClosedConcat
<1>4. ASSUME NEW k \in 1 .. Len(a \o b) PROVE top < (a \o b)[k].id
    <2>1. CASE k \in 1 .. Len(a)
        BY <1>1, <2>1, ConcatAt
    <2>2. CASE \E j \in 1 .. Len(b) : k = Len(a) + j
        <3>1. PICK j \in 1 .. Len(b) : k = Len(a) + j
            BY <2>2
        <3>2. (a \o b)[k] = b[j]
            BY <1>1, <3>1, ConcatAt
        <3>3. mid < b[j].id /\ b[j].id \in Nat
            BY <1>1, EventAt
        <3> QED BY <3>2, <3>3
    <2>3. k \in 1 .. Len(a) \/ \E j \in 1 .. Len(b) : k = Len(a) + j
        BY <1>1, ConcatAt
    <2> QED BY <2>1, <2>2, <2>3
<1> QED BY <1>2, <1>3, <1>4 DEF Block

\* What Publish makes of a task and of the session.
Told(t, new) == [t EXCEPT !.replayed = TRUE, !.events = @ \o new]

LEMMA PublishIs ==
    ASSUME NEW s \in Sessions, NEW t \in Tasks, NEW new \in Seq(Events), Publish(s, t, new)
    PROVE  /\ heard' = heard \o Past(t) \o new
           /\ live' \in Sessions /\ live'.tasks = Changed(s.tasks, Told(t, new))
           /\ live'.done = s.done /\ live'.queue = s.queue
           /\ Told(t, new) \in Tasks /\ Told(t, new).id = t.id /\ Told(t, new).left = t.left
           /\ Told(t, new).paused = t.paused /\ Told(t, new).replayed = TRUE
           /\ Told(t, new).events = t.events \o new
<1>1. PICK u : u = Told(t, new)
    OBVIOUS
<1>2. t.events \o new \in Seq(Events)
    BY TaskParts, ConcatAt
<1>3. /\ u \in Tasks /\ u.id = t.id /\ u.left = t.left /\ u.paused = t.paused
      /\ u.replayed = TRUE /\ u.events = t.events \o new
    BY <1>1, <1>2 DEF Told, Tasks
<1>4. heard' = heard \o Past(t) \o new
    BY DEF Publish, Past
<1>5. PICK c : c = Changed(s.tasks, u)
    OBVIOUS
<1>6. c \in Seq(Tasks)
    BY <1>3, <1>5, SessionParts, ChangedAt
<1>7. live' = [s EXCEPT !.tasks = c]
    BY <1>1, <1>5 DEF Publish, Told
<1>8. live' \in Sessions /\ live'.tasks = c /\ live'.done = s.done /\ live'.queue = s.queue
    BY <1>6, <1>7 DEF Sessions
<1> QED BY <1>1, <1>3, <1>4, <1>5, <1>8

\* A step that tells the whole of what it tells of a task.
LEMMA PublishStep ==
    ASSUME NEW top \in Nat, NEW more \in Nat, top <= more, NEW n \in Nat, RunInv(live, heard, n, top),
           NEW s \in Sessions, s.tasks = live.tasks, s.done = live.done,
           NEW u \in Range(live.tasks), NEW t \in Tasks,
           t.id = u.id, t.events = u.events, t.replayed = u.replayed,
           NEW b, Block(b, u.id, top, more),
           t.paused => b # <<>> /\ b[Len(b)].kind = "interrupted" /\ b[Len(b)].phase = "final",
           Publish(s, t, b)
    PROVE  RunInv(live', heard', n, more)
<1>1. b \in Seq(Events)
    BY DEF Block
<1>2. PICK v : v = Told(t, b)
    OBVIOUS
<1>3. /\ v \in Tasks /\ v.id = u.id /\ v.replayed = TRUE /\ v.paused = t.paused
      /\ v.events = u.events \o b /\ heard' = heard \o Past(t) \o b
      /\ live' \in Sessions /\ live'.tasks = Changed(live.tasks, v) /\ live'.done = live.done
    <2>1. /\ heard' = heard \o Past(t) \o b
          /\ live' \in Sessions /\ live'.tasks = Changed(s.tasks, Told(t, b)) /\ live'.done = s.done
          /\ Told(t, b) \in Tasks /\ Told(t, b).id = t.id /\ Told(t, b).paused = t.paused
          /\ Told(t, b).replayed = TRUE /\ Told(t, b).events = t.events \o b
        BY <1>1, PublishIs
    <2> QED BY <1>2, <2>1
<1>4. Past(t) = Past(u)
    BY DEF Past
<1>5. Replaces(live', live, v)
    BY <1>3 DEF Replaces
<1>6. RunInv(live', (heard \o Past(u)) \o b, n, more)
    BY <1>3, <1>5, PublishInv
<1> QED BY <1>3, <1>4, <1>6

\* A task that was changed twice.
LEMMA ChangedTwice ==
    ASSUME NEW ts \in Seq(Tasks), NEW t \in Tasks, NEW u \in Tasks, t.id = u.id
    PROVE  Changed(Changed(ts, t), u) = Changed(ts, u)
<1>1. PICK c, n : c = Changed(ts, t) /\ n = Len(ts)
    OBVIOUS
<1>2. c \in Seq(Tasks) /\ Len(c) = n /\ \A k \in 1 .. n : c[k].id = ts[k].id
    BY <1>1, ChangedAt
<1>3. \A k \in 1 .. n : c[k] = IF ts[k].id = t.id THEN t ELSE ts[k]
    BY <1>1, ChangedAt
<1>4. DOMAIN c = 1 .. n /\ DOMAIN ts = 1 .. n
    BY <1>1, <1>2, LenProperties
<1>5. \A k \in 1 .. n : (IF c[k].id = u.id THEN u ELSE c[k]) = (IF ts[k].id = u.id THEN u ELSE ts[k])
    BY <1>2, <1>3
<1>6. /\ Changed(c, u) = [k \in 1 .. n |-> IF c[k].id = u.id THEN u ELSE c[k]]
      /\ Changed(ts, u) = [k \in 1 .. n |-> IF ts[k].id = u.id THEN u ELSE ts[k]]
    BY <1>4 DEF Changed
<1> QED BY <1>1, <1>5, <1>6

\* The first of some places.
LEMMA FirstIs ==
    ASSUME NEW ts \in Seq(Tasks), NEW at, at \subseteq 1 .. Len(ts), NEW t \in First(ts, at)
    PROVE  /\ at # {} /\ Min(at) \in at /\ t = ts[Min(at)] /\ First(ts, at) = {t}
           /\ t \in Tasks /\ t \in Range(ts)
<1>1. at # {} /\ t = ts[Min(at)] /\ First(ts, at) = {t}
    BY DEF First
<1>2. at \subseteq Nat
    BY LenProperties
<1>3. \E x \in at : \A y \in at : x <= y
    BY <1>1, <1>2, Least
<1>4. Min(at) \in at
    BY <1>3 DEF Min
<1>5. ts[Min(at)] \in Tasks /\ ts[Min(at)] \in Range(ts)
    BY <1>4, RangeOf
<1> QED BY <1>1, <1>4, <1>5

LEMMA PlacesOf ==
    ASSUME NEW ts \in Seq(Tasks)
    PROVE  /\ RunningAt(ts) = {k \in 1 .. Len(ts) : Running(ts[k])}
           /\ CompleteAt(ts) = {k \in 1 .. Len(ts) : Complete(ts[k])}
<1>1. DOMAIN ts = 1 .. Len(ts)
    BY LenProperties
<1> QED BY <1>1 DEF RunningAt, CompleteAt

LEMMA PickedIs ==
    ASSUME NEW s \in Sessions, NEW t \in Picked(s)
    PROVE  t \in Tasks /\ t \in Range(s.tasks) /\ ~t.paused /\ Picked(s) = {t}
<1>1. PICK ts, at : ts = s.tasks /\ at = IF CompleteAt(ts) # {} THEN CompleteAt(ts) ELSE RunningAt(ts)
    OBVIOUS
<1>2. ts \in Seq(Tasks)
    BY <1>1, SessionParts
<1>3. at \subseteq 1 .. Len(ts) /\ \A k \in at : ~ts[k].paused
    BY <1>1, <1>2, PlacesOf DEF Running, Complete
<1>4. Picked(s) = First(ts, at) /\ t \in First(ts, at)
    BY <1>1 DEF Picked
<1>5. at # {} /\ Min(at) \in at /\ t = ts[Min(at)] /\ First(ts, at) = {t} /\ t \in Tasks /\ t \in Range(ts)
    <2>1. at \subseteq 1 .. Len(ts)
        BY <1>3
    <2> QED BY <1>2, <1>4, <2>1, FirstIs
<1> QED BY <1>1, <1>3, <1>4, <1>5

\* The loop goes on with the same task after it told the beginning of a chain.
LEMMA PickedChanged ==
    ASSUME NEW s \in Sessions, NEW n, NEW top, SessionInv(s, n, top), NEW t \in Picked(s),
           NEW u \in Tasks, u.id = t.id, u.left = t.left, u.paused = t.paused,
           NEW s2 \in Sessions, s2.tasks = Changed(s.tasks, u)
    PROVE  u \in Picked(s2)
<1>1. PICK ts, us : ts = s.tasks /\ us = s2.tasks
    OBVIOUS
<1>2. /\ ts \in Seq(Tasks) /\ us \in Seq(Tasks) /\ Len(us) = Len(ts)
      /\ \A k \in 1 .. Len(ts) : us[k] = IF ts[k].id = u.id THEN u ELSE ts[k]
    <2>1. ts \in Seq(Tasks) /\ us = Changed(ts, u)
        BY <1>1, SessionParts
    <2> QED BY <2>1, ChangedAt
<1>3. t \in Range(ts)
    BY <1>1, PickedIs
<1>4. ASSUME NEW k \in 1 .. Len(ts), ts[k].id = u.id PROVE ts[k] = t
    <2>1. ts[k] \in Buffers(s) /\ t \in Buffers(s)
        BY <1>1, <1>3, BufferIn DEF Buffers
    <2> QED BY <1>4, <2>1, NoTwins
<1>5. \A k \in 1 .. Len(ts) : us[k].paused = ts[k].paused /\ us[k].left = ts[k].left
    BY <1>2, <1>4
<1>6. RunningAt(us) = RunningAt(ts) /\ CompleteAt(us) = CompleteAt(ts)
    <2>1. \A k \in 1 .. Len(ts) : (Running(us[k]) <=> Running(ts[k])) /\ (Complete(us[k]) <=> Complete(ts[k]))
        BY <1>5 DEF Running, Complete
    <2>2. /\ RunningAt(ts) = {k \in 1 .. Len(ts) : Running(ts[k])}
          /\ CompleteAt(ts) = {k \in 1 .. Len(ts) : Complete(ts[k])}
        BY <1>2, PlacesOf
    <2>3. /\ RunningAt(us) = {k \in 1 .. Len(ts) : Running(us[k])}
          /\ CompleteAt(us) = {k \in 1 .. Len(ts) : Complete(us[k])}
        BY <1>2, PlacesOf
    <2> QED BY <2>1, <2>2, <2>3
<1>7. PICK at : at = IF CompleteAt(ts) # {} THEN CompleteAt(ts) ELSE RunningAt(ts)
    OBVIOUS
<1>8. Picked(s) = First(ts, at) /\ Picked(s2) = First(us, at)
    BY <1>1, <1>6, <1>7 DEF Picked
<1>9. at \subseteq 1 .. Len(ts)
    BY <1>2, <1>7, PlacesOf
<1>10. at # {} /\ Min(at) \in at /\ t = ts[Min(at)]
    <2>1. ts \in Seq(Tasks) /\ t \in First(ts, at)
        BY <1>2, <1>8
    <2> QED BY <1>9, <2>1, FirstIs
<1>11. us[Min(at)] = u
    BY <1>2, <1>9, <1>10
<1> QED BY <1>8, <1>10, <1>11 DEF First

-----------------------------------------------------------------------------
(* Steps that open a chain, and steps that close one.                       *)

LEMMA FrontIs ==
    ASSUME NEW A, NEW s \in Seq(A), s # <<>>
    PROVE  Front(s) \in Seq(A) /\ s[Len(s)] \in A /\ Front(s) \o <<s[Len(s)]>> = s
<1>1. PICK n, f : n = Len(s) - 1 /\ f = SubSeq(s, 1, n)
    OBVIOUS
<1>2. Len(s) \in Nat /\ Len(s) # 0
    BY LenProperties, EmptySeq
<1>3. n \in 0 .. Len(s) - 1 /\ n + 1 = Len(s)
    BY <1>1, <1>2
<1>4. /\ s[n + 1] \in A /\ f \in Seq(A)
      /\ SubSeq(s, 1, n + 1) = Append(f, s[n + 1]) /\ SubSeq(s, 1, Len(s)) = s
    BY <1>1, <1>3, Prefixed
<1>5. Append(f, s[n + 1]) = f \o <<s[n + 1]>>
    BY <1>4, AppendIsConcat
<1>6. Front(s) = f
    BY <1>1 DEF Front
<1> QED BY <1>3, <1>4, <1>5, <1>6

LEMMA FrontOfConcat ==
    ASSUME NEW A, NEW a \in Seq(A), NEW x \in A
    PROVE  /\ a \o <<x>> \in Seq(A) /\ a \o <<x>> # <<>> /\ Front(a \o <<x>>) = a
           /\ (a \o <<x>>)[Len(a \o <<x>>)] = x
<1>1. PICK s, b : s = a \o b /\ b = <<x>>
    OBVIOUS
<1>2. b \in Seq(A) /\ Len(b) = 1 /\ b[1] = x /\ b # <<>>
    BY <1>1
<1>3. s \in Seq(A) /\ Len(s) = Len(a) + 1 /\ Len(a) \in Nat /\ \A i \in 1 .. Len(a) : s[i] = a[i]
    BY <1>1, <1>2, ConcatAt
<1>4. s # <<>> /\ s[Len(s)] = x
    BY <1>1, <1>2, LastOfConcat
<1>5. PICK f : f = SubSeq(s, 1, Len(a))
    OBVIOUS
<1>6. \A i \in 1 .. Len(a) : s[i] \in A
    BY <1>3, ElementOfSeq
<1>7. f \in Seq(A) /\ Len(f) = Len(a) /\ \A i \in 1 .. Len(a) : f[i] = s[i]
    BY <1>3, <1>5, <1>6, SubSeqProperties
<1>8. f = a
    BY <1>3, <1>7, SeqEqual
<1>9. Front(s) = f
    <2>1. Len(s) - 1 = Len(a)
        BY <1>3
    <2> QED BY <1>5, <2>1 DEF Front
<1> QED BY <1>1, <1>3, <1>4, <1>8, <1>9

\* The session without the event that opened the chain.
LEMMA UndoneIs ==
    ASSUME NEW s \in Sessions, NEW t \in Tasks, t.events # <<>>
    PROVE  LET u == [t EXCEPT !.events = Front(@)]
           IN  /\ u \in Tasks /\ u.id = t.id /\ u.left = t.left /\ u.paused = t.paused
               /\ u.replayed = t.replayed /\ u.events = Front(t.events)
               /\ Undone(s, t) \in Sessions /\ Undone(s, t).done = s.done
               /\ Undone(s, t).queue = s.queue /\ Undone(s, t).tasks = Changed(s.tasks, u)
<1>1. PICK u, c : u = [t EXCEPT !.events = Front(@)] /\ c = Changed(s.tasks, u)
    OBVIOUS
<1>2. Front(t.events) \in Seq(Events)
    BY TaskParts, FrontIs
<1>3. /\ u \in Tasks /\ u.id = t.id /\ u.left = t.left /\ u.paused = t.paused
      /\ u.replayed = t.replayed /\ u.events = Front(t.events)
    BY <1>1, <1>2 DEF Tasks
<1>4. c \in Seq(Tasks)
    BY <1>1, <1>3, SessionParts, ChangedAt
<1>5. Undone(s, t) = [s EXCEPT !.tasks = c]
    BY <1>1 DEF Undone
<1>6. /\ Undone(s, t) \in Sessions /\ Undone(s, t).done = s.done
      /\ Undone(s, t).queue = s.queue /\ Undone(s, t).tasks = c
    BY <1>4, <1>5 DEF Sessions
<1> QED BY <1>1, <1>3, <1>6

LEMMA OpenStep ==
    ASSUME NEW n \in Nat, NEW top \in Nat, RunInv(live, heard, n, top), NEW t \in Picked(live),
           Publish(live, t, <<Event(t, top + 1, KindOf(t), "started")>>)
    PROVE  OpenInv(live', heard', n, top)
<1>1. PICK e, b, v, h : /\ e = Event(t, top + 1, KindOf(t), "started") /\ b = <<e>>
                        /\ v = Told(t, b) /\ h = heard \o Past(t)
    OBVIOUS
<1>2. SessionInv(live, n, top) /\ HeardInv(live, heard, n, top) /\ live \in Sessions
    BY DEF RunInv, SessionInv
<1>3. t \in Tasks /\ t \in Range(live.tasks) /\ t \in Buffers(live) /\ t.events \in Seq(Events) /\ t.id \in Nat
    <2>1. t \in Tasks /\ t \in Range(live.tasks)
        BY <1>2, PickedIs
    <2> QED BY <2>1, TaskParts DEF Buffers
<1>4. e \in Events /\ b \in Seq(Events)
    <2>1. KindOf(t) \in Kinds /\ top + 1 \in Nat
        BY DEF KindOf, Kinds
    <2>2. e \in Events
        BY <1>1, <1>3, <2>1, EventTyped
    <2> QED BY <1>1, <2>2
<1>5. /\ heard' = h \o b /\ live' \in Sessions /\ live'.tasks = Changed(live.tasks, v)
      /\ live'.done = live.done
      /\ v \in Tasks /\ v.id = t.id /\ v.left = t.left /\ v.paused = t.paused /\ v.replayed = TRUE
      /\ v.events = t.events \o b
    BY <1>1, <1>2, <1>3, <1>4, PublishIs
<1>6. v \in Picked(live')
    BY <1>2, <1>5, PickedChanged
<1>7. h \in Seq(Events) /\ Past(t) \in Seq(Events)
    BY <1>1, <1>2, <1>3, PastTold
<1>8. heard' \in Seq(Events) /\ heard' # <<>> /\ Front(heard') = h /\ heard'[Len(heard')] = e
    <2>1. h \o <<e>> \in Seq(Events) /\ h \o <<e>> # <<>> /\ Front(h \o <<e>>) = h
          /\ (h \o <<e>>)[Len(h \o <<e>>)] = e
        BY <1>4, <1>7, FrontOfConcat
    <2> QED BY <1>1, <1>5, <2>1
<1>9. v.events # <<>> /\ Front(v.events) = t.events /\ v.events[Len(v.events)] = e
    <2>1. PICK x : x = t.events
        OBVIOUS
    <2>2. x \o <<e>> # <<>> /\ Front(x \o <<e>>) = x /\ (x \o <<e>>)[Len(x \o <<e>>)] = e
        BY <1>3, <1>4, <2>1, FrontOfConcat
    <2> QED BY <1>1, <1>5, <2>1, <2>2
<1>10. Event(v, top + 1, KindOf(v), "started") = e
    BY <1>1, <1>5 DEF Event, KindOf
<1>11. PICK u : u = [v EXCEPT !.events = Front(@)]
    OBVIOUS
<1>12. /\ u \in Tasks /\ u.id = t.id /\ u.paused = t.paused /\ u.replayed = TRUE /\ u.events = t.events
       /\ Undone(live', v) \in Sessions /\ Undone(live', v).done = live.done
       /\ Undone(live', v).tasks = Changed(live'.tasks, u)
    BY <1>5, <1>9, <1>11, UndoneIs
<1>13. Changed(live'.tasks, u) = Changed(live.tasks, u)
    BY <1>2, <1>5, <1>12, SessionParts, ChangedTwice
<1>14. Replaces(Undone(live', v), live, u)
    BY <1>12, <1>13 DEF Replaces
<1>15. RunInv(Undone(live', v), (heard \o Past(t)) \o <<>>, n, top)
    <2>1. u.events = t.events \o <<>>
        BY <1>3, <1>12, ConcatEmptySeq
    <2>2. Block(<<>>, t.id, top, top) /\ ~u.paused /\ top <= top
        BY <1>2, <1>12, BlockNothing, PickedIs
    <2> QED BY <1>3, <1>12, <1>14, <2>1, <2>2, PublishInv
<1>16. RunInv(Undone(live', v), h, n, top)
    BY <1>1, <1>7, <1>15, ConcatEmptySeq
<1> QED BY <1>5, <1>6, <1>8, <1>9, <1>10, <1>16 DEF OpenInv

LEMMA CloseStep ==
    ASSUME NEW n \in Nat, NEW top \in Nat, NEW more \in Nat, top <= more,
           OpenInv(live, heard, n, top), NEW t \in Picked(live),
           NEW s \in Sessions, s.tasks = live.tasks, s.done = live.done,
           NEW w \in Tasks, w.id = t.id, w.events = t.events, w.replayed = t.replayed, w.paused = t.paused,
           NEW b \in Seq(Events),
           Block(<<Event(t, top + 1, KindOf(t), "started")>> \o b, t.id, top, more),
           Publish(s, w, b)
    PROVE  RunInv(live', heard', n, more)
<1>1. PICK e, c : e = Event(t, top + 1, KindOf(t), "started") /\ c = <<e>>
    OBVIOUS
<1>2. /\ t \in Tasks /\ t \in Range(live.tasks) /\ ~t.paused /\ live \in Sessions
      /\ t.replayed /\ t.events # <<>> /\ heard # <<>> /\ heard \in Seq(Events)
      /\ t.events[Len(t.events)] = e /\ heard[Len(heard)] = e
      /\ RunInv(Undone(live, t), Front(heard), n, top)
    <2>1. PICK q \in Picked(live) :
              LET started == Event(q, top + 1, KindOf(q), "started")
              IN  /\ q.replayed /\ q.events # <<>> /\ heard # <<>>
                  /\ live \in Sessions /\ heard \in Seq(Events)
                  /\ q.events[Len(q.events)] = started /\ heard[Len(heard)] = started
                  /\ RunInv(Undone(live, q), Front(heard), n, top)
        BY DEF OpenInv
    <2>2. live \in Sessions
        BY <2>1
    <2>3. Picked(live) = {t} /\ t \in Tasks /\ t \in Range(live.tasks) /\ ~t.paused
        BY <2>2, PickedIs
    <2>4. q = t
        BY <2>3
    <2> QED BY <1>1, <2>1, <2>3, <2>4
<1>3. PICK f, h, z : f = Front(t.events) /\ h = Front(heard) /\ z = Undone(live, t)
    OBVIOUS
<1>4. t.events \in Seq(Events)
    BY <1>2, TaskParts
<1>5. f \in Seq(Events) /\ e \in Events /\ f \o c = t.events /\ h \in Seq(Events) /\ h \o c = heard
    BY <1>1, <1>2, <1>3, <1>4, FrontIs
<1>6. c \in Seq(Events) /\ c \o b \in Seq(Events)
    BY <1>1, <1>5, ConcatAt
<1>7. PICK u : u = [t EXCEPT !.events = Front(@)]
    OBVIOUS
<1>8. /\ u \in Tasks /\ u.id = t.id /\ u.replayed /\ u.events = f
      /\ z \in Sessions /\ z.done = live.done /\ z.tasks = Changed(live.tasks, u)
    BY <1>2, <1>3, <1>7, UndoneIs
<1>9. PICK v : v = Told(w, b)
    OBVIOUS
<1>10. /\ heard' = heard \o Past(w) \o b
       /\ live' \in Sessions /\ live'.tasks = Changed(live.tasks, v) /\ live'.done = live.done
       /\ v \in Tasks /\ v.id = t.id /\ v.paused = FALSE /\ v.replayed = TRUE /\ v.events = t.events \o b
    <2>1. /\ heard' = heard \o Past(w) \o b
          /\ live' \in Sessions /\ live'.tasks = Changed(s.tasks, Told(w, b)) /\ live'.done = s.done
          /\ Told(w, b) \in Tasks /\ Told(w, b).id = w.id /\ Told(w, b).paused = w.paused
          /\ Told(w, b).replayed = TRUE /\ Told(w, b).events = w.events \o b
        BY PublishIs
    <2>2. w.paused = FALSE
        BY <1>2
    <2> QED BY <1>9, <2>1, <2>2
<1>11. Past(w) = <<>> /\ Past(u) = <<>>
    BY <1>2, <1>8 DEF Past
<1>12. u \in Range(z.tasks)
    <2>1. PICK ts, us : ts = live.tasks /\ us = Changed(ts, u)
        OBVIOUS
    <2>2. ts \in Seq(Tasks) /\ t \in Range(ts)
        BY <1>2, <2>1, SessionParts
    <2>3. PICK k \in 1 .. Len(ts) : t = ts[k]
        BY <2>2, RangeOf
    <2>4. us \in Seq(Tasks) /\ Len(us) = Len(ts) /\ us[k] = IF ts[k].id = u.id THEN u ELSE ts[k]
        <3>1. u \in Tasks
            BY <1>8
        <3>2. us = Changed(ts, u)
            BY <2>1
        <3> QED BY <2>2, <3>1, <3>2, ChangedAt
    <2>5. us[k] = u /\ k \in 1 .. Len(us)
        BY <1>8, <2>3, <2>4
    <2>6. us[k] \in Range(us)
        BY <2>4, <2>5, RangeOf
    <2> QED BY <1>8, <2>1, <2>5, <2>6
<1>13. Replaces(live', z, v)
    <2>1. Changed(z.tasks, v) = Changed(live.tasks, v)
        BY <1>2, <1>8, <1>10, SessionParts, ChangedTwice
    <2> QED BY <1>8, <1>10, <2>1 DEF Replaces
<1>14. v.events = u.events \o (c \o b)
    <2>1. (f \o c) \o b = f \o (c \o b)
        <3>1. f \in Seq(Events) /\ c \in Seq(Events) /\ b \in Seq(Events)
            BY <1>5, <1>6
        <3> QED BY <3>1, ConcatAssociative
    <2> QED BY <1>5, <1>8, <1>10, <2>1
<1>15. RunInv(live', (h \o Past(u)) \o (c \o b), n, more)
    <2>1. RunInv(z, h, n, top) /\ Block(c \o b, u.id, top, more)
        BY <1>1, <1>2, <1>3, <1>8
    <2>2. v.id = u.id /\ v.replayed /\ ~v.paused
        BY <1>8, <1>10
    <2> QED BY <1>10, <1>12, <1>13, <1>14, <2>1, <2>2, PublishInv
<1>16. (h \o Past(u)) \o (c \o b) = heard'
    <2>1. h \o Past(u) = h /\ heard \o Past(w) = heard
        BY <1>2, <1>5, <1>11, ConcatEmptySeq
    <2>2. h \o (c \o b) = (h \o c) \o b
        <3>1. h \in Seq(Events) /\ c \in Seq(Events) /\ b \in Seq(Events)
            BY <1>5, <1>6
        <3> QED BY <3>1, ConcatAssociative
    <2> QED BY <1>5, <1>10, <2>1, <2>2
<1> QED BY <1>15, <1>16

\* A change of a task that tells nothing.
LEMMA QuietInv ==
    ASSUME NEW n \in Nat, NEW top \in Nat, NEW s, NEW h, RunInv(s, h, n, top),
           NEW u \in Range(s.tasks), NEW t \in Tasks,
           t.id = u.id, t.events = u.events, t.replayed = u.replayed, ~t.paused,
           NEW s2, Replaces(s2, s, t)
    PROVE  RunInv(s2, h, n, top)
<1>1. SessionInv(s, n, top) /\ HeardInv(s, h, n, top) /\ s \in Sessions
    BY DEF RunInv, SessionInv
<1>2. PICK k \in 1 .. Len(s.tasks) : u = s.tasks[k]
    <2>1. s.tasks \in Seq(Tasks)
        BY <1>1, SessionParts
    <2> QED BY <2>1, RangeOf
<1>3. u \in Buffers(s)
    BY DEF Buffers
<1>4. TaskInv(t, n, top)
    <2>1. TaskInv(u, n, top)
        BY <1>1, <1>2 DEF SessionInv
    <2>2. Buffer(t, n, top)
        BY <2>1 DEF TaskInv, Buffer
    <2> QED BY <2>1, <2>2 DEF TaskInv
<1>5. SessionInv(s2, n, top)
    BY <1>1, <1>4, SessionReplaced
<1>6. \A b \in Buffers(s2) : b = t \/ (b \in Buffers(s) /\ b.id # t.id)
    BY <1>1, ReplacedBuffers
<1>7. Known(s2) = Known(s)
    BY <1>1, ReplacedBuffers
<1>8. HeardInv(s2, h, n, top)
    <2>1. ASSUME NEW b \in Buffers(s2), ~b.replayed PROVE None(h, Of(b.id))
        <3>1. CASE b = t
            <4>1. None(h, Of(u.id))
                BY <1>1, <1>3, <2>1, <3>1 DEF HeardInv
            <4> QED BY <3>1, <4>1
        <3>2. CASE b \in Buffers(s)
            BY <1>1, <2>1, <3>2 DEF HeardInv
        <3> QED BY <1>6, <3>1, <3>2
    <2> QED BY <1>1, <2>1 DEF HeardInv
<1>9. ASSUME ToldInv(s, h) PROVE ToldInv(s2, h)
    <2>1. ASSUME NEW b \in Buffers(s2), b.replayed
          PROVE  Keep(Keep(h, Of(b.id)), Finals) = Keep(b.events, Finals)
        <3>1. CASE b = t
            <4>1. Keep(Keep(h, Of(u.id)), Finals) = Keep(u.events, Finals)
                BY <1>3, <1>9, <2>1, <3>1 DEF ToldInv
            <4> QED BY <3>1, <4>1
        <3>2. CASE b \in Buffers(s)
            BY <1>9, <2>1, <3>2 DEF ToldInv
        <3> QED BY <1>6, <3>1, <3>2
    <2> QED BY <1>7, <1>9, <2>1 DEF ToldInv
<1> QED BY <1>5, <1>8, <1>9 DEF RunInv

LEMMA NewSessionInv ==
    ASSUME NEW n, NEW top
    PROVE  SavedInv(NewSession, n, top) /\ NewSession \in Sessions
<1>1. PICK s : s = NewSession
    OBVIOUS
<1>2. <<>> \in Seq(Tasks) /\ <<>> \in Seq(Dones) /\ <<>> \in Seq(Queued) /\ Len(<<>>) = 0 /\ 1 .. 0 = {}
    BY EmptySeq
<1>3. s = [tasks |-> <<>>, done |-> <<>>, queue |-> <<>>]
    BY <1>1 DEF NewSession
<1>4. s \in Sessions /\ s.tasks = <<>> /\ s.done = <<>>
    BY <1>2, <1>3 DEF Sessions
<1>5. SessionInv(s, n, top)
    BY <1>2, <1>4 DEF SessionInv, Ordered
<1>6. SavedInv(s, n, top)
    BY <1>2, <1>4, <1>5 DEF SavedInv
<1> QED BY <1>1, <1>4, <1>6

-----------------------------------------------------------------------------
(* Every step keeps the invariant.                                          *)

LEMMA InvParts ==
    ASSUME EventsInv
    PROVE  /\ used \in [runs : Nat, inputs : Nat, tasks : Nat, events : Nat, calls : Nat, faults : Nat]
           /\ used.runs \in Nat /\ used.inputs \in Nat /\ used.tasks \in Nat
           /\ used.events \in Nat /\ used.calls \in Nat /\ used.faults \in Nat
           /\ SavedInv(stored, used.tasks, used.events) /\ SavedInv(last, used.tasks, used.events)
           /\ pc \in {"save", "loop", "outputs"} => RunInv(live, heard, used.tasks, used.events)
           /\ pc = "open" => OpenInv(live, heard, used.tasks, used.events)
           /\ pc = "outputs" => \A k \in 1 .. Len(live.done) : live.done[k].replayed
           /\ pc = "failed" => SessionInv(live, used.tasks, used.events) /\ InOrder(heard, used.events)
BY DEF EventsInv, UsedInv

LEMMA LiveParts ==
    ASSUME NEW n, NEW top, RunInv(live, heard, n, top)
    PROVE  /\ SessionInv(live, n, top) /\ live \in Sessions /\ live.tasks \in Seq(Tasks)
           /\ live.done \in Seq(Dones) /\ live.queue \in Seq(Queued) /\ heard \in Seq(Events)
<1>1. SessionInv(live, n, top) /\ live \in Sessions /\ heard \in Seq(Events)
    BY DEF RunInv, SessionInv, HeardInv, InOrder
<1> QED BY <1>1, SessionParts

\* A step of the loop, which ends before its checkpoint.
LEMMA SavesInv ==
    ASSUME EventsInv, UsedInv', used.tasks <= used'.tasks, used.events <= used'.events,
           Saves, RunInv(live', heard', used'.tasks, used'.events)
    PROVE  EventsInv'
<1>1. PICK n, top, m, more : /\ n = used.tasks /\ top = used.events
                             /\ m = used'.tasks /\ more = used'.events
    OBVIOUS
<1>2. n \in Nat /\ top \in Nat /\ SavedInv(stored, n, top) /\ SavedInv(last, n, top)
    BY <1>1, InvParts
<1>3. m \in Nat /\ more \in Nat /\ n <= m /\ top <= more
    BY <1>1 DEF UsedInv
<1>4. SavedInv(stored, m, more) /\ SavedInv(last, m, more)
    BY <1>2, <1>3, SavedMore
<1>5. pc' = "save" /\ stored' = stored /\ last' = last
    BY DEF Saves
<1> QED BY <1>1, <1>4, <1>5 DEF EventsInv

LEMMA BeginInv ==
    ASSUME EventsInv, NEW resume \in BOOLEAN, NEW given \in Given, Begin(resume, given)
    PROVE  EventsInv'
<1>1. PICK n, top, s, r : /\ n = used.tasks /\ top = used.events /\ s = Loaded(stored, resume)
                          /\ r = Replayed(s)
    OBVIOUS
<1>2. n \in Nat /\ top \in Nat /\ SavedInv(stored, n, top)
    BY <1>1, InvParts
<1>3. SavedInv(s, n, top) /\ (~Kept => \A b \in Buffers(s) : ~b.replayed)
    BY <1>1, <1>2, LoadedInv
<1>4. RunInv(s, <<>>, n, top) /\ SessionInv(s, n, top) /\ s \in Sessions
    <2>1. RunInv(s, <<>>, n, top)
        BY <1>3, NothingHeard
    <2> QED BY <1>3, <2>1 DEF SavedInv, SessionInv
<1>5. RunInv(r, Unreplayed(s), n, top)
    <2>1. RunInv(r, <<>> \o Unreplayed(s), n, top)
        BY <1>1, <1>2, <1>4, DoneTold
    <2>2. Unreplayed(s) \in Seq(Events)
        BY <1>2, <1>4, UnreplayedTold DEF InOrder
    <2> QED BY <2>1, <2>2, ConcatEmptySeq
<1>6. r \in Sessions /\ r.queue \in Seq(Queued)
    <2>1. r \in Sessions
        BY <1>1, <1>4, ReplayedAt
    <2> QED BY <2>1, SessionParts
<1>7. given \in Seq(Queued) /\ Len(given) \in Nat
    <2>1. <<>> \in Seq(Queued) /\ Len(<<>>) = 0
        BY EmptySeq
    <2>2. ASSUME NEW i \in Inputs PROVE <<i>> \in Seq(Queued) /\ Len(<<i>>) = 1
        <3>1. i \in Queued
            BY <1>1, <1>2 DEF Inputs, Input, Queued
        <3> QED BY <3>1
    <2>3. given = <<>> \/ \E i \in Inputs : given = <<i>>
        BY DEF Given
    <2>4. CASE given = <<>>
        BY <2>1, <2>4
    <2>5. CASE \E i \in Inputs : given = <<i>>
        <3>1. PICK i \in Inputs : given = <<i>>
            BY <2>5
        <3>2. <<i>> \in Seq(Queued) /\ Len(<<i>>) = 1
            BY <2>2
        <3> QED BY <3>1, <3>2
    <2> QED BY <2>3, <2>4, <2>5
<1>8. /\ live' = [r EXCEPT !.queue = @ \o given] /\ heard' = Unreplayed(s)
      /\ last' = s /\ stored' = stored /\ pc' = "save"
      /\ used' = [used EXCEPT !.runs = @ + 1, !.inputs = @ + Len(given)]
    BY <1>1 DEF Begin
<1>9. UsedInv' /\ used'.tasks = n /\ used'.events = top
    <2>1. used \in [runs : Nat, inputs : Nat, tasks : Nat, events : Nat, calls : Nat, faults : Nat]
        BY InvParts
    <2>2. used.runs + 1 \in Nat /\ used.inputs + Len(given) \in Nat
        BY <1>7, <2>1
    <2> QED BY <1>1, <1>8, <2>1, <2>2 DEF UsedInv
<1>10. live' \in Sessions /\ live'.tasks = r.tasks /\ live'.done = r.done
    <2>1. r.queue \o given \in Seq(Queued)
        BY <1>6, <1>7, ConcatAt
    <2> QED BY <1>6, <1>8, <2>1 DEF Sessions
<1>11. RunInv(live', heard', n, top)
    BY <1>5, <1>8, <1>10, Requeued
<1> QED BY <1>2, <1>3, <1>8, <1>9, <1>11 DEF EventsInv

LEMMA CheckpointInv ==
    ASSUME EventsInv, Checkpoint
    PROVE  EventsInv'
<1>1. PICK n, top : n = used.tasks /\ top = used.events
    OBVIOUS
<1>2. n \in Nat /\ top \in Nat /\ RunInv(live, heard, n, top)
    BY <1>1, InvParts DEF Checkpoint
<1>3. RunInv(FoldedTasks(live), heard, n, top) /\ SavedInv(FoldedTasks(live), n, top)
    BY <1>2, RunFolded
<1>4. /\ live' = FoldedTasks(live) /\ stored' = FoldedTasks(live) /\ last' = FoldedTasks(live)
      /\ pc' = "loop" /\ heard' = heard /\ used' = used
    BY DEF Checkpoint
<1>5. UsedInv'
    BY <1>4 DEF EventsInv, UsedInv
<1> QED BY <1>1, <1>3, <1>4, <1>5 DEF EventsInv

LEMMA PoppedIs ==
    ASSUME NEW kind, live \in Sessions, Waits(kind)
    PROVE  /\ Popped \in Sessions /\ Popped.tasks = live.tasks /\ Popped.done = live.done
           /\ pc = "loop"
<1>1. live.queue # <<>> /\ pc = "loop"
    BY DEF Waits
<1>2. Tail(live.queue) \in Seq(Queued)
    BY <1>1, SessionParts, HeadTailProperties
<1>3. PICK q : q = Tail(live.queue)
    OBVIOUS
<1>4. Popped = [live EXCEPT !.queue = q]
    BY <1>3 DEF Popped
<1> QED BY <1>1, <1>2, <1>3, <1>4 DEF Sessions

LEMMA NextIdIs ==
    ASSUME EventsInv
    PROVE  /\ Id = used.events + 1 /\ Id \in Nat /\ used.events < Id
           /\ NextId \in [runs : Nat, inputs : Nat, tasks : Nat, events : Nat, calls : Nat, faults : Nat]
           /\ NextId.tasks = used.tasks /\ NextId.events = Id /\ NextId.inputs = used.inputs
           /\ NextId.calls = used.calls
BY InvParts DEF Id, NextId

\* The list with a task more, and the same task told.
LEMMA ChangedLast ==
    ASSUME NEW ts \in Seq(Tasks), NEW t \in Tasks, NEW u \in Tasks, t.id = u.id,
           \A k \in 1 .. Len(ts) : ts[k].id # t.id
    PROVE  Changed(Append(ts, t), u) = Append(ts, u)
<1>1. PICK a, b, n : a = Append(ts, t) /\ b = Append(ts, u) /\ n = Len(ts)
    OBVIOUS
<1>2. n \in Nat /\ a \in Seq(Tasks) /\ Len(a) = n + 1 /\ a[n + 1] = t /\ \A k \in 1 .. n : a[k] = ts[k]
    BY <1>1, LenProperties, AppendProperties
<1>3. b \in Seq(Tasks) /\ Len(b) = n + 1 /\ b[n + 1] = u /\ \A k \in 1 .. n : b[k] = ts[k]
    BY <1>1, LenProperties, AppendProperties
<1>4. PICK c : c = Changed(a, u)
    OBVIOUS
<1>5. c \in Seq(Tasks) /\ Len(c) = n + 1 /\ \A k \in 1 .. n + 1 : c[k] = IF a[k].id = u.id THEN u ELSE a[k]
    <2>1. /\ Changed(a, u) \in Seq(Tasks) /\ Len(Changed(a, u)) = Len(a)
          /\ \A k \in 1 .. Len(a) : Changed(a, u)[k] = IF a[k].id = u.id THEN u ELSE a[k]
        BY <1>2, ChangedAt
    <2> QED BY <1>2, <1>4, <2>1
<1>6. ASSUME NEW k \in 1 .. n + 1 PROVE c[k] = b[k]
    <2>1. CASE k = n + 1
        BY <1>2, <1>3, <1>5, <2>1
    <2>2. CASE k \in 1 .. n
        BY <1>1, <1>2, <1>3, <1>5, <2>2
    <2> QED BY <1>2, <2>1, <2>2
<1>7. c = b
    BY <1>3, <1>5, <1>6, SeqEqual
<1> QED BY <1>1, <1>4, <1>7

LEMMA StartTaskInv ==
    ASSUME EventsInv, StartTask
    PROVE  EventsInv'
<1>1. PICK n, top, t, s, b : /\ n = used.tasks /\ top = used.events /\ t = NewTask(n + 1)
                             /\ s = [Popped EXCEPT !.tasks = Append(@, t)] /\ b = Final(t, top + 1, "input")
    OBVIOUS
<1>2. /\ n \in Nat /\ top \in Nat /\ top + 1 \in Nat /\ top < top + 1 /\ top <= top + 1 /\ n < n + 1 /\ n + 1 \in Nat
      /\ Waits("user") /\ pc = "loop"
    BY <1>1, InvParts DEF StartTask, Waits
<1>3. RunInv(live, heard, n, top)
    BY <1>1, <1>2, InvParts
<1>4. /\ SessionInv(live, n, top) /\ live \in Sessions /\ live.tasks \in Seq(Tasks) /\ heard \in Seq(Events)
      /\ Popped \in Sessions /\ Popped.tasks = live.tasks /\ Popped.done = live.done
    BY <1>2, <1>3, LiveParts, PoppedIs
<1>5. /\ t \in Tasks /\ t.id = n + 1 /\ t.paused = FALSE /\ t.replayed = FALSE /\ t.events = <<>>
    <2>1. t = [id |-> n + 1, left |-> "message", paused |-> FALSE, asked |-> "none",
               answered |-> FALSE, events |-> <<>>, replayed |-> FALSE]
        BY <1>1 DEF NewTask
    <2>2. <<>> \in Seq(Events)
        BY EmptySeq
    <2> QED BY <1>2, <2>1, <2>2 DEF Tasks
<1>6. s \in Sessions /\ s.tasks = Append(live.tasks, t) /\ s.done = live.done
    <2>1. Append(live.tasks, t) \in Seq(Tasks)
        BY <1>4, <1>5, AppendProperties
    <2> QED BY <1>1, <1>4, <2>1 DEF Sessions
<1>7. /\ Block(b, n + 1, top, top + 1) /\ b \in Seq(Events) /\ b # <<>>
      /\ b[1].kind = "input" /\ b[1].phase = "final"
    <2>1. t.id \in Nat /\ "input" \in Kinds
        BY <1>2, <1>5 DEF Kinds
    <2> QED BY <1>1, <1>2, <1>5, <2>1, BlockFinal
<1>8. Publish(s, t, b) /\ used' = [NextId EXCEPT !.tasks = @ + 1] /\ Saves
    BY <1>1 DEF StartTask, Id
<1>9. PICK v : v = Told(t, b)
    OBVIOUS
<1>10. /\ heard' = heard \o Past(t) \o b
       /\ live' \in Sessions /\ live'.tasks = Changed(s.tasks, v) /\ live'.done = s.done
       /\ v \in Tasks /\ v.id = t.id /\ v.paused = t.paused /\ v.replayed = TRUE /\ v.events = t.events \o b
    <2>1. /\ heard' = heard \o Past(t) \o b
          /\ live' \in Sessions /\ live'.tasks = Changed(s.tasks, Told(t, b)) /\ live'.done = s.done
          /\ Told(t, b) \in Tasks /\ Told(t, b).id = t.id /\ Told(t, b).paused = t.paused
          /\ Told(t, b).replayed = TRUE /\ Told(t, b).events = t.events \o b
        <3>1. s \in Sessions /\ t \in Tasks /\ b \in Seq(Events) /\ Publish(s, t, b)
            BY <1>5, <1>6, <1>7, <1>8
        <3> QED BY <3>1, PublishIs
    <2> QED BY <1>9, <2>1
<1>11. live'.tasks = Append(live.tasks, v)
    <2>1. ASSUME NEW k \in 1 .. Len(live.tasks) PROVE live.tasks[k].id # t.id
        <3>1. live.tasks[k].id <= n /\ live.tasks[k].id \in Nat
            BY <1>4, BufferIn DEF SessionInv, TaskInv, Buffer
        <3> QED BY <1>2, <1>5, <3>1
    <2> QED BY <1>4, <1>5, <1>6, <1>10, <2>1, ChangedLast
<1>12. v.events = b /\ heard' = heard \o b
    <2>1. Past(t) = <<>>
        BY <1>5 DEF Past
    <2>2. <<>> \o b = b /\ heard \o <<>> = heard
        BY <1>4, <1>7, ConcatEmptySeq
    <2> QED BY <1>5, <1>10, <2>1, <2>2
<1>13. RunInv(live', heard \o v.events, n + 1, top + 1)
    <2>1. v.id = n + 1 /\ v.paused = FALSE /\ v.replayed = TRUE
        BY <1>5, <1>10
    <2>2. /\ Block(v.events, n + 1, top, top + 1) /\ v.events # <<>>
          /\ v.events[1].kind = "input" /\ v.events[1].phase = "final"
        BY <1>7, <1>12
    <2>3. live'.done = live.done
        BY <1>6, <1>10
    <2> QED BY <1>2, <1>3, <1>10, <1>11, <2>1, <2>2, <2>3, AddedInv
<1>14. UsedInv' /\ used'.tasks = n + 1 /\ used'.events = top + 1
    <2>1. /\ NextId \in [runs : Nat, inputs : Nat, tasks : Nat, events : Nat, calls : Nat, faults : Nat]
          /\ NextId.tasks = n /\ NextId.events = top + 1
        BY <1>1, NextIdIs
    <2> QED BY <1>2, <1>8, <2>1 DEF UsedInv
<1>15. RunInv(live', heard', used'.tasks, used'.events)
    BY <1>12, <1>13, <1>14
<1>16. used.tasks <= used'.tasks /\ used.events <= used'.events
    BY <1>1, <1>2, <1>14
<1> QED BY <1>8, <1>14, <1>15, <1>16, SavesInv

LEMMA ResumeTaskInv ==
    ASSUME EventsInv, ResumeTask
    PROVE  EventsInv'
<1>1. PICK n, top : n = used.tasks /\ top = used.events
    OBVIOUS
<1>2. n \in Nat /\ top \in Nat /\ top + 1 \in Nat /\ top <= top + 1 /\ top <= top /\ Saves /\ pc = "loop"
    <2>1. n \in Nat /\ top \in Nat
        BY <1>1, InvParts
    <2>2. Saves /\ pc = "loop"
        BY DEF ResumeTask, Waits
    <2> QED BY <2>1, <2>2
<1>3. RunInv(live, heard, n, top)
    BY <1>1, <1>2, InvParts
<1>4. /\ SessionInv(live, n, top) /\ live \in Sessions /\ live.tasks \in Seq(Tasks)
      /\ Popped \in Sessions /\ Popped.tasks = live.tasks /\ Popped.done = live.done
    BY <1>3, LiveParts, PoppedIs DEF ResumeTask
<1>5. CASE live' = Popped /\ heard' = heard /\ used' = used
    <2>1. RunInv(live', heard', used'.tasks, used'.events)
        BY <1>1, <1>3, <1>4, <1>5, Requeued
    <2>2. UsedInv' /\ used.tasks <= used'.tasks /\ used.events <= used'.events
        BY <1>1, <1>2, <1>5, InvParts DEF UsedInv
    <2> QED BY <1>2, <2>1, <2>2, SavesInv
<1>6. CASE \E t \in Range(live.tasks) :
              /\ Publish(Popped, [t EXCEPT !.paused = FALSE, !.answered = TRUE], Final(t, Id, "response"))
              /\ used' = NextId
    <2>1. PICK u \in Range(live.tasks) :
              /\ Publish(Popped, [u EXCEPT !.paused = FALSE, !.answered = TRUE], Final(u, Id, "response"))
              /\ used' = NextId
        BY <1>6
    <2>2. PICK t, b : t = [u EXCEPT !.paused = FALSE, !.answered = TRUE] /\ b = Final(u, Id, "response")
        OBVIOUS
    <2>3. u \in Tasks /\ u.id \in Nat
        BY <1>4, RangeOf, TaskParts
    <2>4. /\ t \in Tasks /\ t.id = u.id /\ t.events = u.events /\ t.replayed = u.replayed
          /\ t.paused = FALSE
        BY <2>2, <2>3 DEF Tasks
    <2>5. Id = top + 1 /\ used'.tasks = n /\ used'.events = top + 1 /\ UsedInv'
        BY <1>1, <2>1, NextIdIs DEF UsedInv
    <2>6. Block(b, u.id, top, top + 1)
        <3>1. "response" \in Kinds /\ top < top + 1
            BY <1>2 DEF Kinds
        <3> QED BY <1>2, <2>2, <2>3, <2>5, <3>1, BlockFinal
    <2>7. RunInv(live', heard', n, top + 1)
        <3>1. Publish(Popped, t, b)
            BY <2>1, <2>2
        <3> QED BY <1>2, <1>3, <1>4, <2>4, <2>6, <3>1, PublishStep
    <2>8. used.tasks <= used'.tasks /\ used.events <= used'.events
        BY <1>1, <1>2, <2>5
    <2>9. RunInv(live', heard', used'.tasks, used'.events)
        BY <2>5, <2>7
    <2> QED BY <1>2, <2>5, <2>8, <2>9, SavesInv
<1> QED BY <1>5, <1>6 DEF ResumeTask

\* Opening a chain of a task that the loop goes on with.
LEMMA OpenKeeps ==
    ASSUME EventsInv, NEW t \in Picked(live), pc = "loop", Open(t, KindOf(t))
    PROVE  EventsInv'
<1>1. PICK n, top : n = used.tasks /\ top = used.events
    OBVIOUS
<1>2. n \in Nat /\ top \in Nat /\ RunInv(live, heard, n, top)
    BY <1>1, InvParts
<1>3. Publish(live, t, <<Event(t, top + 1, KindOf(t), "started")>>)
    BY <1>1 DEF Open, Id
<1>4. OpenInv(live', heard', n, top)
    BY <1>2, <1>3, OpenStep
<1>5. pc' = "open" /\ stored' = stored /\ last' = last /\ used' = used
    BY DEF Open
<1>6. UsedInv' /\ used'.tasks = n /\ used'.events = top
    BY <1>1, <1>5, InvParts DEF UsedInv
<1>7. SavedInv(stored', used'.tasks, used'.events) /\ SavedInv(last', used'.tasks, used'.events)
    BY <1>1, <1>5, <1>6, InvParts
<1> QED BY <1>4, <1>5, <1>6, <1>7 DEF EventsInv

LEMMA OpenMessageInv ==
    ASSUME EventsInv, NEW t, OpenMessage(t)
    PROVE  EventsInv'
<1>1. t \in Picked(live) /\ pc = "loop" /\ KindOf(t) = "message"
    BY DEF OpenMessage, Goes, KindOf
<1>2. Open(t, KindOf(t))
    BY <1>1 DEF OpenMessage
<1> QED BY <1>1, <1>2, OpenKeeps

LEMMA OpenToolInv ==
    ASSUME EventsInv, NEW t, OpenTool(t)
    PROVE  EventsInv'
<1>1. t \in Picked(live) /\ pc = "loop" /\ KindOf(t) = "result"
    BY DEF OpenTool, Goes, KindOf
<1>2. Open(t, KindOf(t))
    BY <1>1 DEF OpenTool
<1> QED BY <1>1, <1>2, OpenKeeps

LEMMA WentOnIs ==
    ASSUME NEW t \in Tasks, NEW left \in {"message", "build", "tool", "answer", "none", "switch"}
    PROVE  /\ WentOn(t, left) \in Tasks /\ WentOn(t, left).id = t.id /\ WentOn(t, left).events = t.events
           /\ WentOn(t, left).replayed = t.replayed /\ WentOn(t, left).paused = t.paused
BY DEF WentOn, Tasks

LEMMA CloseMessageInv ==
    ASSUME EventsInv, NEW t, NEW left \in {"none", "build", "tool"}, CloseMessage(t, left)
    PROVE  EventsInv'
<1>1. PICK n, top, a, b, c : /\ n = used.tasks /\ top = used.events
                             /\ a = Chain(t, Id, "message")
                             /\ c = IF left = "tool" THEN Final(t, Id + 1, "call") ELSE <<>>
                             /\ b = a \o c
    OBVIOUS
<1>2. /\ n \in Nat /\ top \in Nat /\ top + 1 \in Nat /\ top + 2 \in Nat /\ top < top + 1
      /\ top + 1 < top + 2 /\ Id = top + 1
    BY <1>1, InvParts DEF Id
<1>3. t \in Picked(live) /\ pc = "open" /\ KindOf(t) = "message"
    BY DEF CloseMessage, Goes, KindOf
<1>4. OpenInv(live, heard, n, top) /\ live \in Sessions
    <2>1. OpenInv(live, heard, n, top)
        BY <1>1, <1>3, InvParts
    <2> QED BY <2>1 DEF OpenInv
<1>5. t \in Tasks /\ t.id \in Nat
    BY <1>3, <1>4, PickedIs, TaskParts
<1>6. PICK w : w = WentOn(t, left)
    OBVIOUS
<1>7. w \in Tasks /\ w.id = t.id /\ w.events = t.events /\ w.replayed = t.replayed /\ w.paused = t.paused
    BY <1>5, <1>6, WentOnIs
<1>8. PICK e : e = Event(t, top + 1, "message", "started")
    OBVIOUS
<1>9. Block(<<e>> \o a, t.id, top, top + 1) /\ a \in Seq(Events) /\ Len(a) = 2
    <2>1. "message" \in Kinds
        BY DEF Kinds
    <2> QED BY <1>1, <1>2, <1>5, <1>8, <2>1, BlockChain
<1>10. PICK more : more = IF left = "tool" THEN top + 2 ELSE top + 1
    OBVIOUS
<1>11. more \in Nat /\ top + 1 <= more /\ top <= more
    BY <1>2, <1>10
<1>12. Block(c, t.id, top + 1, more) /\ c \in Seq(Events) /\ Len(c) = more - (top + 1)
    <2>1. CASE left = "tool"
        <3>1. c = Final(t, top + 2, "call") /\ more = top + 2 /\ "call" \in Kinds
            BY <1>1, <1>2, <1>10, <2>1 DEF Kinds
        <3>2. Len(c) = 1 /\ Block(c, t.id, top + 1, top + 2) /\ c \in Seq(Events)
            BY <1>2, <1>5, <3>1, BlockFinal
        <3> QED BY <1>2, <3>1, <3>2
    <2>2. CASE left # "tool"
        <3>1. c = <<>> /\ more = top + 1 /\ Len(<<>>) = 0 /\ <<>> \in Seq(Events)
            BY <1>1, <1>10, <2>2, EmptySeq
        <3> QED BY <1>2, <3>1, BlockNothing
    <2> QED BY <2>1, <2>2
<1>13. b \in Seq(Events) /\ Len(b) = 2 + (more - (top + 1))
    <2>1. a \in Seq(Events) /\ c \in Seq(Events)
        BY <1>9, <1>12
    <2>2. a \o c \in Seq(Events) /\ Len(a \o c) = Len(a) + Len(c)
        BY <2>1, ConcatProperties
    <2> QED BY <1>1, <1>9, <1>12, <2>2
<1>14. Block(<<e>> \o b, t.id, top, more)
    <2>1. Block((<<e>> \o a) \o c, t.id, top, more)
        BY <1>2, <1>9, <1>11, <1>12, BlockConcat
    <2>2. (<<e>> \o a) \o c = <<e>> \o (a \o c)
        <3>1. e \in Events
            <4>1. "message" \in Kinds
                BY DEF Kinds
            <4> QED BY <1>2, <1>5, <1>8, <4>1, EventTyped
        <3>2. <<e>> \in Seq(Events) /\ a \in Seq(Events) /\ c \in Seq(Events)
            BY <1>9, <1>12, <3>1
        <3> QED BY <3>2, ConcatAssociative
    <2> QED BY <1>1, <2>1, <2>2
<1>15. /\ Publish(live, w, b) /\ Saves
       /\ used' = [used EXCEPT !.events = @ + Len(b) - 1, !.calls = @ + (IF left = "none" THEN 0 ELSE 1)]
    BY <1>1, <1>6 DEF CloseMessage
<1>16. RunInv(live', heard', n, more)
    <2>1. Block(<<Event(t, top + 1, KindOf(t), "started")>> \o b, t.id, top, more)
        BY <1>3, <1>8, <1>14
    <2> QED BY <1>2, <1>3, <1>4, <1>7, <1>11, <1>13, <1>15, <2>1, CloseStep
<1>17. UsedInv' /\ used'.tasks = n /\ used'.events = more
    <2>1. used \in [runs : Nat, inputs : Nat, tasks : Nat, events : Nat, calls : Nat, faults : Nat]
        BY InvParts
    <2>2. used.events + Len(b) - 1 = more
        <3>1. Len(b) = 2 + (more - (top + 1)) /\ used.events = top
            BY <1>1, <1>13
        <3> QED BY <1>2, <1>11, <3>1
    <2>3. used.calls + (IF left = "none" THEN 0 ELSE 1) \in Nat
        BY <2>1
    <2> QED BY <1>1, <1>11, <1>15, <2>1, <2>2, <2>3 DEF UsedInv
<1>18. RunInv(live', heard', used'.tasks, used'.events)
    BY <1>16, <1>17
<1>19. used.tasks <= used'.tasks /\ used.events <= used'.events
    BY <1>1, <1>2, <1>11, <1>17
<1> QED BY <1>15, <1>17, <1>18, <1>19, SavesInv

\* One event of a task that the loop goes on with.
LEMMA FinalStep ==
    ASSUME EventsInv, pc = "loop", NEW t \in Picked(live), NEW kind \in Kinds,
           NEW w, w \in Tasks, w.id = t.id, w.events = t.events, w.replayed = t.replayed,
           w.paused => kind = "interrupted",
           Publish(live, w, Final(t, Id, kind)),
           used' \in [runs : Nat, inputs : Nat, tasks : Nat, events : Nat, calls : Nat, faults : Nat],
           used'.tasks = used.tasks, used'.events = Id, Saves
    PROVE  EventsInv'
<1>1. PICK n, top, b : n = used.tasks /\ top = used.events /\ b = Final(t, Id, kind)
    OBVIOUS
<1>2. n \in Nat /\ top \in Nat /\ Id = top + 1 /\ top + 1 \in Nat /\ top < top + 1 /\ top <= top + 1
    BY <1>1, InvParts DEF Id
<1>3. RunInv(live, heard, n, top)
    BY <1>1, InvParts
<1>4. live \in Sessions
    BY <1>3, LiveParts
<1>5. t \in Range(live.tasks) /\ t \in Tasks /\ t.id \in Nat
    BY <1>4, PickedIs, TaskParts
<1>6. /\ Block(b, t.id, top, top + 1) /\ b # <<>> /\ Len(b) = 1
      /\ b[1].kind = kind /\ b[1].phase = "final"
    BY <1>1, <1>2, <1>5, BlockFinal
<1>7. w.paused => b # <<>> /\ b[Len(b)].kind = "interrupted" /\ b[Len(b)].phase = "final"
    BY <1>6
<1>8. Publish(live, w, b)
    BY <1>1
<1>9. RunInv(live', heard', n, top + 1)
    BY <1>2, <1>3, <1>4, <1>5, <1>6, <1>7, <1>8, PublishStep
<1>10. UsedInv' /\ used.tasks <= used'.tasks /\ used.events <= used'.events
    BY <1>1, <1>2 DEF UsedInv
<1>11. RunInv(live', heard', used'.tasks, used'.events)
    BY <1>1, <1>2, <1>9
<1> QED BY <1>10, <1>11, SavesInv

LEMMA BuildCallsInv ==
    ASSUME EventsInv, NEW t, BuildCalls(t)
    PROVE  EventsInv'
<1>1. t \in Picked(live) /\ pc = "loop" /\ used' = NextId /\ Saves
    BY DEF BuildCalls, Goes
<1>2. live \in Sessions
    BY <1>1, InvParts, LiveParts
<1>3. t \in Tasks /\ ~t.paused
    BY <1>1, <1>2, PickedIs
<1>4. PICK w : w = WentOn(t, "tool")
    OBVIOUS
<1>5. w \in Tasks /\ w.id = t.id /\ w.events = t.events /\ w.replayed = t.replayed /\ ~w.paused
    BY <1>3, <1>4, WentOnIs
<1>6. Publish(live, w, Final(t, Id, "call"))
    BY <1>4 DEF BuildCalls
<1>7. /\ used' \in [runs : Nat, inputs : Nat, tasks : Nat, events : Nat, calls : Nat, faults : Nat]
      /\ used'.tasks = used.tasks /\ used'.events = Id
    BY <1>1, NextIdIs
<1>8. "call" \in Kinds
    BY DEF Kinds
<1> QED BY <1>1, <1>5, <1>6, <1>7, <1>8, FinalStep

LEMMA AskToolInv ==
    ASSUME EventsInv, NEW t, AskTool(t)
    PROVE  EventsInv'
<1>1. t \in Picked(live) /\ pc = "loop" /\ used' = [NextId EXCEPT !.calls = @ + 1] /\ Saves
    BY DEF AskTool, Goes
<1>2. live \in Sessions
    BY <1>1, InvParts, LiveParts
<1>3. t \in Tasks
    BY <1>1, <1>2, PickedIs
<1>4. PICK w : w = [t EXCEPT !.paused = TRUE, !.asked = "tool", !.answered = FALSE]
    OBVIOUS
<1>5. w \in Tasks /\ w.id = t.id /\ w.events = t.events /\ w.replayed = t.replayed
    BY <1>3, <1>4 DEF Tasks
<1>6. Publish(live, w, Final(t, Id, "interrupted"))
    BY <1>4 DEF AskTool
<1>7. /\ used' \in [runs : Nat, inputs : Nat, tasks : Nat, events : Nat, calls : Nat, faults : Nat]
      /\ used'.tasks = used.tasks /\ used'.events = Id
    BY <1>1, NextIdIs
<1>8. "interrupted" \in Kinds
    BY DEF Kinds
<1> QED BY <1>1, <1>5, <1>6, <1>7, <1>8, FinalStep

LEMMA CloseToolInv ==
    ASSUME EventsInv, NEW t, NEW left \in {"answer", "switch"}, NEW pushed \in Pushed,
           CloseTool(t, left, pushed)
    PROVE  EventsInv'
<1>1. PICK n, top, b, s : /\ n = used.tasks /\ top = used.events /\ b = Chain(t, Id, "result")
                          /\ s = [live EXCEPT !.queue = @ \o pushed]
    OBVIOUS
<1>2. n \in Nat /\ top \in Nat /\ top + 1 \in Nat /\ top < top + 1 /\ top <= top + 1 /\ Id = top + 1
    BY <1>1, InvParts DEF Id
<1>3. t \in Picked(live) /\ pc = "open" /\ KindOf(t) = "result"
    BY DEF CloseTool, Goes, KindOf
<1>4. OpenInv(live, heard, n, top) /\ live \in Sessions
    <2>1. OpenInv(live, heard, n, top)
        BY <1>1, <1>3, InvParts
    <2> QED BY <2>1 DEF OpenInv
<1>5. t \in Tasks /\ t.id \in Nat
    BY <1>3, <1>4, PickedIs, TaskParts
<1>6. PICK w : w = WentOn(t, left)
    OBVIOUS
<1>7. w \in Tasks /\ w.id = t.id /\ w.events = t.events /\ w.replayed = t.replayed /\ w.paused = t.paused
    BY <1>5, <1>6, WentOnIs
<1>8. Block(<<Event(t, top + 1, "result", "started")>> \o b, t.id, top, top + 1) /\ b \in Seq(Events)
    <2>1. "result" \in Kinds
        BY DEF Kinds
    <2> QED BY <1>1, <1>2, <1>5, <2>1, BlockChain
<1>9. pushed \in Seq(Queued) /\ Len(pushed) \in Nat
    <2>1. pushed = <<>> \/ \E u \in Range(live.tasks) : pushed = <<Input("response", u.id)>>
        BY DEF Pushed
    <2>2. CASE pushed = <<>>
        BY <2>2, EmptySeq
    <2>3. CASE \E u \in Range(live.tasks) : pushed = <<Input("response", u.id)>>
        <3>1. PICK u \in Range(live.tasks) : pushed = <<Input("response", u.id)>>
            BY <2>3
        <3>2. u.id \in Nat
            <4>1. u \in Buffers(live)
                BY DEF Buffers
            <4> QED BY <1>4, <4>1, BufferIn
        <3>3. Input("response", u.id) \in Queued
            BY <3>2 DEF Input, Queued
        <3> QED BY <3>1, <3>3
    <2> QED BY <2>1, <2>2, <2>3
<1>10. s \in Sessions /\ s.tasks = live.tasks /\ s.done = live.done
    <2>1. live.queue \o pushed \in Seq(Queued)
        BY <1>4, <1>9, SessionParts, ConcatAt
    <2> QED BY <1>1, <1>4, <2>1 DEF Sessions
<1>11. Publish(s, w, b) /\ Saves /\ used' = [NextId EXCEPT !.inputs = @ + Len(pushed)]
    BY <1>1, <1>6 DEF CloseTool
<1>12. RunInv(live', heard', n, top + 1)
    <2>1. Block(<<Event(t, top + 1, KindOf(t), "started")>> \o b, t.id, top, top + 1)
        BY <1>3, <1>8
    <2> QED BY <1>2, <1>3, <1>4, <1>7, <1>8, <1>10, <1>11, <2>1, CloseStep
<1>13. UsedInv' /\ used'.tasks = n /\ used'.events = top + 1
    <2>1. /\ NextId \in [runs : Nat, inputs : Nat, tasks : Nat, events : Nat, calls : Nat, faults : Nat]
          /\ NextId.tasks = n /\ NextId.events = top + 1
        BY <1>1, <1>2, NextIdIs
    <2>2. NextId.inputs + Len(pushed) \in Nat
        BY <1>9, <2>1
    <2> QED BY <1>11, <2>1, <2>2 DEF UsedInv
<1>14. RunInv(live', heard', used'.tasks, used'.events)
    BY <1>12, <1>13
<1>15. used.tasks <= used'.tasks /\ used.events <= used'.events
    BY <1>1, <1>2, <1>13
<1> QED BY <1>11, <1>13, <1>14, <1>15, SavesInv

LEMMA ConfirmInv ==
    ASSUME EventsInv, NEW t, Confirm(t)
    PROVE  EventsInv'
<1>1. PICK n, top, w : n = used.tasks /\ top = used.events /\ w = WentOn(t, "tool")
    OBVIOUS
<1>2. t \in Picked(live) /\ pc = "loop" /\ Saves /\ heard' = heard /\ used' = used
    BY DEF Confirm, Goes
<1>3. n \in Nat /\ top \in Nat /\ RunInv(live, heard, n, top)
    BY <1>1, <1>2, InvParts
<1>4. live \in Sessions
    BY <1>3, LiveParts
<1>5. t \in Tasks /\ t \in Range(live.tasks) /\ ~t.paused
    BY <1>2, <1>4, PickedIs
<1>6. w \in Tasks /\ w.id = t.id /\ w.events = t.events /\ w.replayed = t.replayed /\ ~w.paused
    BY <1>1, <1>5, WentOnIs
<1>7. Replaces(live', live, w)
    <2>1. PICK c : c = Changed(live.tasks, w)
        OBVIOUS
    <2>2. c \in Seq(Tasks)
        BY <1>4, <1>6, <2>1, SessionParts, ChangedAt
    <2>3. live' = [live EXCEPT !.tasks = c]
        BY <1>1, <2>1 DEF Confirm
    <2> QED BY <1>4, <2>1, <2>2, <2>3 DEF Replaces, Sessions
<1>8. RunInv(live', heard, n, top)
    BY <1>3, <1>5, <1>6, <1>7, QuietInv
<1>9. UsedInv' /\ used.tasks <= used'.tasks /\ used.events <= used'.events
    BY <1>1, <1>2, <1>3, InvParts DEF UsedInv
<1>10. RunInv(live', heard', used'.tasks, used'.events)
    BY <1>1, <1>2, <1>8
<1> QED BY <1>2, <1>9, <1>10, SavesInv

\* A finished task moves to the finished ones, told or not.
LEMMA CloseInv ==
    ASSUME EventsInv, NEW t, NEW reports \in BOOLEAN, Close(t, reports)
    PROVE  EventsInv'
<1>1. PICK n, top, switch, b, d :
          /\ n = used.tasks /\ top = used.events
          /\ switch = (t.left = "switch")
          /\ b = IF t.left = "switch" \/ reports THEN Final(t, Id, "frame") ELSE <<>>
          /\ d = [id |-> t.id, events |-> Folded(t.events \o b), replayed |-> t.replayed \/ b # <<>>]
    OBVIOUS
<1>2. /\ t \in Picked(live) /\ pc = "loop" /\ Saves
      /\ heard' = heard \o (IF t.replayed \/ b = <<>> THEN <<>> ELSE t.events) \o b
      /\ live' = [live EXCEPT
              !.tasks = Without(@, t),
              !.queue = @ \o (IF switch THEN <<Input("user", 0)>> ELSE <<>>),
              !.done  = Append(@, d)]
      /\ used' = [used EXCEPT !.events = @ + Len(b), !.inputs = @ + (IF switch THEN 1 ELSE 0)]
    BY <1>1 DEF Close, Goes
<1>3. n \in Nat /\ top \in Nat /\ RunInv(live, heard, n, top)
    BY <1>1, <1>2, InvParts
<1>4. SessionInv(live, n, top) /\ live \in Sessions /\ live.done \in Seq(Dones) /\ live.queue \in Seq(Queued)
      /\ live.tasks \in Seq(Tasks) /\ heard \in Seq(Events)
    BY <1>3, LiveParts
<1>5. t \in Tasks /\ t \in Range(live.tasks) /\ t.paused = FALSE
    BY <1>2, <1>4, PickedIs DEF Tasks
<1>6. t.id \in Nat /\ t.events \in Seq(Events) /\ t.replayed \in BOOLEAN /\ Closed(t.events)
    <2>1. t \in Buffers(live)
        BY <1>5 DEF Buffers
    <2>2. Closed(t.events)
        BY <1>4, <2>1, BufferInv
    <2> QED BY <1>5, <2>2, TaskParts
<1>7. PICK more : more = top + Len(b)
    OBVIOUS
<1>8. /\ b \in Seq(Events) /\ Len(b) \in Nat /\ more \in Nat /\ top <= more
      /\ Block(b, t.id, top, more)
    <2>1. CASE b = <<>>
        <3>1. Len(<<>>) = 0 /\ <<>> \in Seq(Events)
            BY EmptySeq
        <3>2. more = top /\ b \in Seq(Events) /\ Len(b) = 0
            BY <1>3, <1>7, <2>1, <3>1
        <3> QED BY <1>3, <2>1, <3>2, BlockNothing
    <2>2. CASE b # <<>>
        <3>1. b = Final(t, top + 1, "frame") /\ "frame" \in Kinds /\ top + 1 \in Nat /\ top < top + 1
            BY <1>1, <1>3, <2>2 DEF Id, Kinds
        <3>2. Len(b) = 1 /\ b \in Seq(Events) /\ Block(b, t.id, top, top + 1)
            BY <1>3, <1>6, <3>1, BlockFinal
        <3> QED BY <1>3, <1>7, <3>2
    <2> QED BY <2>1, <2>2
<1>9. t.events \o b \in Seq(Events) /\ Folded(t.events \o b) = Keep(t.events \o b, Finals)
    <2>1. Closed(b)
        BY <1>8 DEF Block
    <2>2. t.events \o b \in Seq(Events) /\ Closed(t.events \o b)
        BY <1>6, <1>8, <2>1, ConcatAt, ClosedConcat
    <2> QED BY <2>2, FoldedFinals
<1>10. /\ d \in Dones /\ d.id = t.id /\ d.events = Keep(t.events \o b, Finals)
       /\ d.replayed = (t.replayed \/ b # <<>>)
    <2>1. Keep(t.events \o b, Finals) \in Seq(Events)
        BY <1>9, KeepTyped
    <2> QED BY <1>1, <1>6, <1>9, <2>1 DEF Dones
<1>11. /\ live' \in Sessions /\ live'.tasks = Without(live.tasks, t) /\ live'.done = Append(live.done, d)
    <2>1. PICK k, q, f : /\ k = Without(live.tasks, t) /\ f = Append(live.done, d)
                         /\ q = live.queue \o (IF switch THEN <<Input("user", 0)>> ELSE <<>>)
        OBVIOUS
    <2>2. k \in Seq(Tasks)
        BY <1>4, <2>1, KeepTyped DEF Without
    <2>3. f \in Seq(Dones)
        BY <1>4, <1>10, <2>1, AppendProperties
    <2>4. q \in Seq(Queued)
        <3>1. <<Input("user", 0)>> \in Seq(Queued) /\ <<>> \in Seq(Queued)
            BY EmptySeq DEF Input, Queued
        <3>2. (IF switch THEN <<Input("user", 0)>> ELSE <<>>) \in Seq(Queued)
            BY <3>1
        <3> QED BY <1>4, <2>1, <3>2, ConcatAt
    <2>5. live' = [live EXCEPT !.tasks = k, !.queue = q, !.done = f]
        BY <1>2, <2>1
    <2> QED BY <1>4, <2>1, <2>2, <2>3, <2>4, <2>5 DEF Sessions
<1>12. ASSUME b # <<>> PROVE RunInv(live', heard', n, more)
    <2>1. heard' = (heard \o Past(t)) \o b
        BY <1>2, <1>12 DEF Past
    <2>2. d.replayed = TRUE
        BY <1>10, <1>12
    <2>3. RunInv(live', (heard \o Past(t)) \o b, n, more)
        BY <1>3, <1>5, <1>8, <1>10, <1>11, <1>12, <2>2, ClosedInv
    <2> QED BY <2>1, <2>3
<1>13. ASSUME b = <<>> PROVE RunInv(live', heard', n, more)
    <2>1. heard' = heard /\ more = top
        <3>1. heard \o <<>> = heard /\ Len(<<>>) = 0
            BY <1>4, ConcatEmptySeq, EmptySeq
        <3>2. heard' = heard \o <<>> \o <<>>
            BY <1>2, <1>13
        <3> QED BY <1>3, <1>7, <1>13, <3>1, <3>2
    <2>2. d.replayed = t.replayed /\ d.events = Keep(t.events, Finals)
        <3>1. t.events \o <<>> = t.events
            BY <1>6, ConcatEmptySeq
        <3> QED BY <1>6, <1>10, <1>13, <3>1
    <2>3. RunInv(live', heard, n, top)
        BY <1>3, <1>5, <1>10, <1>11, <2>2, MovedInv
    <2> QED BY <2>1, <2>3
<1>14. UsedInv' /\ used'.tasks = n /\ used'.events = more
    <2>1. used \in [runs : Nat, inputs : Nat, tasks : Nat, events : Nat, calls : Nat, faults : Nat]
        BY InvParts
    <2>2. used.inputs + (IF switch THEN 1 ELSE 0) \in Nat
        BY <2>1
    <2> QED BY <1>1, <1>2, <1>7, <1>8, <2>1, <2>2 DEF UsedInv
<1>15. used.tasks <= used'.tasks /\ used.events <= used'.events
    BY <1>1, <1>3, <1>8, <1>14
<1>16. RunInv(live', heard', used'.tasks, used'.events)
    BY <1>12, <1>13, <1>14
<1> QED BY <1>2, <1>14, <1>15, <1>16, SavesInv

LEMMA EndLoopInv ==
    ASSUME EventsInv, EndLoop
    PROVE  EventsInv'
<1>1. PICK n, top : n = used.tasks /\ top = used.events
    OBVIOUS
<1>2. /\ pc = "loop" /\ heard' = heard \o Unreplayed(live) /\ live' = Replayed(live) /\ pc' = "outputs"
      /\ stored' = stored /\ last' = last /\ used' = used
    BY DEF EndLoop
<1>3. n \in Nat /\ top \in Nat /\ RunInv(live, heard, n, top)
    BY <1>1, <1>2, InvParts
<1>4. RunInv(live', heard', n, top)
    BY <1>2, <1>3, DoneTold
<1>5. UsedInv' /\ SavedInv(stored', used'.tasks, used'.events) /\ SavedInv(last', used'.tasks, used'.events)
    BY <1>2, InvParts DEF UsedInv
<1>6. \A k \in 1 .. Len(live'.done) : live'.done[k].replayed
    <2>1. live \in Sessions
        BY <1>3, LiveParts
    <2>2. /\ Len(Replayed(live).done) = Len(live.done)
          /\ \A k \in 1 .. Len(live.done) : Replayed(live).done[k].replayed = TRUE
        BY <2>1, ReplayedAt
    <2> QED BY <1>2, <2>2
<1> QED BY <1>1, <1>2, <1>4, <1>5, <1>6 DEF EventsInv

LEMMA FinishInv ==
    ASSUME EventsInv, Finish
    PROVE  EventsInv'
<1>1. PICK n, top, c : n = used.tasks /\ top = used.events /\ c = Cleaned(live)
    OBVIOUS
<1>2. /\ pc \in {"outputs", "failed"} /\ stored' = FoldedTasks(c) /\ pc' = "idle"
      /\ live' = NewSession /\ last' = NewSession /\ heard' = <<>> /\ used' = used
    BY <1>1 DEF Finish
<1>3. SessionInv(live, n, top) /\ live \in Sessions
    <2>1. SessionInv(live, n, top)
        BY <1>1, <1>2, InvParts DEF RunInv
    <2> QED BY <2>1 DEF SessionInv
<1>4. SessionInv(c, n, top)
    <2>1. PICK S : S = {t \in Range(live.tasks) : ~Running(t)}
        OBVIOUS
    <2>2. c \in Sessions /\ c.done = <<>> /\ c.tasks = Keep(live.tasks, S)
        BY <1>1, <1>3, <2>1, CleanedIs
    <2> QED BY <1>3, <2>2, FewerTasks
<1>5. SavedInv(FoldedTasks(c), n, top) /\ SavedInv(NewSession, n, top)
    BY <1>4, SessionFolded, NewSessionInv
<1>6. UsedInv'
    BY <1>2, InvParts DEF UsedInv
<1> QED BY <1>1, <1>2, <1>5, <1>6 DEF EventsInv

\* What was heard is in order, with the event that opened a chain.
LEMMA HeardSoFar ==
    ASSUME EventsInv, pc \in {"save", "loop", "open"}
    PROVE  InOrder(heard, used.events + 1)
<1>1. PICK n, top : n = used.tasks /\ top = used.events
    OBVIOUS
<1>2. n \in Nat /\ top \in Nat /\ top + 1 \in Nat /\ top <= top + 1 /\ top < top + 1
    BY <1>1, InvParts
<1>3. ASSUME NEW h, InOrder(h, top) PROVE InOrder(h, top + 1)
    <2>1. ASSUME NEW k \in 1 .. Len(h) PROVE h[k].id <= top + 1
        <3>1. h \in Seq(Events) /\ h[k].id <= top
            BY <1>3 DEF InOrder, Below
        <3>2. h[k].id \in Nat
            BY <3>1, EventAt
        <3> QED BY <1>2, <3>1, <3>2
    <2> QED BY <1>3, <2>1 DEF InOrder, Below
<1>4. CASE pc \in {"save", "loop"}
    <2>1. InOrder(heard, top)
        BY <1>1, <1>4, InvParts DEF RunInv, HeardInv
    <2> QED BY <1>1, <1>3, <2>1
<1>5. CASE pc = "open"
    <2>1. OpenInv(live, heard, n, top)
        BY <1>1, <1>5, InvParts
    <2>2. PICK t \in Picked(live) :
              LET started == Event(t, top + 1, KindOf(t), "started")
              IN  /\ t.replayed /\ t.events # <<>> /\ heard # <<>>
                  /\ live \in Sessions /\ heard \in Seq(Events)
                  /\ t.events[Len(t.events)] = started /\ heard[Len(heard)] = started
                  /\ RunInv(Undone(live, t), Front(heard), n, top)
        BY <2>1 DEF OpenInv
    <2>3. PICK e, h, b : e = heard[Len(heard)] /\ h = Front(heard) /\ b = <<e>>
        OBVIOUS
    <2>4. t \in Tasks /\ t.id \in Nat
        BY <2>2, PickedIs, TaskParts
    <2>5. e \in Events /\ e.id = top + 1
        <3>1. KindOf(t) \in Kinds
            BY DEF KindOf, Kinds
        <3> QED BY <1>2, <2>2, <2>3, <2>4, <3>1, EventTyped
    <2>6. InOrder(h, top) /\ h \in Seq(Events)
        BY <2>2, <2>3 DEF RunInv, HeardInv, InOrder
    <2>7. b \in Seq(Events) /\ Len(b) = 1 /\ b[1] = e
        BY <2>3, <2>5
    <2>8. \A k \in 1 .. Len(b) : k = 1
        BY <2>7
    <2>9. InOrder(b, top + 1)
        <3>1. Ordered(b, Timely) /\ Together(b)
            BY <2>8 DEF Ordered, Together
        <3>2. Below(b, top + 1)
            BY <1>2, <2>5, <2>7, <2>8 DEF Below
        <3> QED BY <2>7, <3>1, <3>2 DEF InOrder
    <2>10. ASSUME NEW i \in 1 .. Len(h), NEW j \in 1 .. Len(b) PROVE h[i].task # b[j].task \/ h[i].id < b[j].id
        <3>1. h[i].id <= top /\ h[i].id \in Nat
            BY <2>6, EventAt DEF InOrder, Below
        <3>2. b[j].id = top + 1
            BY <2>5, <2>7, <2>8
        <3> QED BY <1>2, <3>1, <3>2
    <2>11. InOrder(h \o b, top + 1)
        BY <1>2, <2>6, <2>9, <2>10, InOrderConcat
    <2>12. h \o b = heard
        BY <2>2, <2>3, FrontIs
    <2> QED BY <1>1, <2>11, <2>12
<1> QED BY <1>4, <1>5

\* The run is lost: nothing was heard, and the store is as it was.
LEMMA GoneInv ==
    ASSUME EventsInv, Gone, UNCHANGED stored, used' = [used EXCEPT !.faults = @ + 1]
    PROVE  EventsInv'
<1>1. PICK n, top : n = used.tasks /\ top = used.events
    OBVIOUS
<1>2. /\ pc' = "idle" /\ live' = NewSession /\ last' = NewSession /\ heard' = <<>> /\ stored' = stored
    BY DEF Gone
<1>3. SavedInv(stored, n, top) /\ SavedInv(NewSession, n, top)
    BY <1>1, InvParts, NewSessionInv
<1>4. UsedInv' /\ used'.tasks = n /\ used'.events = top
    BY <1>1, InvParts DEF UsedInv
<1> QED BY <1>2, <1>3, <1>4 DEF EventsInv

\* A failure goes back to the last checkpoint, where a task asks to be tried again.
LEMMA RetriedInv ==
    ASSUME EventsInv, pc \in {"save", "loop", "open"},
           NEW t \in First(last.tasks, RunningAt(last.tasks)),
           Publish(last, Retried(t), Final(t, Id + 1, "interrupted")),
           stored' = FoldedTasks(live'), pc' = "failed", last' = last,
           used' = [used EXCEPT !.events = @ + 2, !.faults = @ + 1]
    PROVE  EventsInv'
<1>1. PICK n, top, r, b : /\ n = used.tasks /\ top = used.events /\ r = Retried(t)
                          /\ b = Final(t, Id + 1, "interrupted")
    OBVIOUS
<1>2. /\ n \in Nat /\ top \in Nat /\ top + 1 \in Nat /\ top + 2 \in Nat /\ Id + 1 = top + 2
      /\ top <= top + 1 /\ top + 1 < top + 2 /\ top + 1 <= top + 2 /\ top < top + 2 /\ top <= top + 2
    BY <1>1, InvParts DEF Id
<1>3. SavedInv(last, n, top) /\ SessionInv(last, n, top) /\ last \in Sessions
    <2>1. SavedInv(last, n, top)
        BY <1>1, InvParts
    <2> QED BY <2>1 DEF SavedInv, SessionInv
<1>4. t \in Tasks /\ t \in Range(last.tasks) /\ t.id \in Nat /\ t.events \in Seq(Events)
    <2>1. last.tasks \in Seq(Tasks)
        BY <1>3, SessionParts
    <2>2. RunningAt(last.tasks) \subseteq 1 .. Len(last.tasks)
        BY <2>1, PlacesOf
    <2> QED BY <2>1, <2>2, FirstIs, TaskParts
<1>5. PICK k \in 1 .. Len(last.tasks) : t = last.tasks[k]
    <2>1. last.tasks \in Seq(Tasks)
        BY <1>3, SessionParts
    <2> QED BY <1>4, <2>1, RangeOf
<1>6. TaskInv(t, n, top) /\ Buffer(t, n, top) /\ Closed(t.events) /\ All(t.events, Finals)
    BY <1>3, <1>5 DEF SavedInv, SessionInv, TaskInv
<1>7. r \in Tasks /\ r.id = t.id /\ r.events = t.events /\ r.paused = TRUE /\ r.replayed = TRUE
    BY <1>1, <1>4 DEF Retried, Asks, Tasks
<1>8. /\ Block(b, t.id, top + 1, top + 2) /\ b \in Seq(Events) /\ b # <<>> /\ Len(b) = 1
      /\ b[1].kind = "interrupted" /\ b[1].phase = "final" /\ b[1].task = t.id /\ b[1].id = top + 2
    <2>1. "interrupted" \in Kinds
        BY DEF Kinds
    <2> QED BY <1>1, <1>2, <1>4, <2>1, BlockFinal
<1>9. Block(b, t.id, top, top + 2)
    <2>1. ASSUME NEW j \in 1 .. Len(b) PROVE top < b[j].id
        BY <1>2, <1>8, <2>1
    <2> QED BY <1>8, <2>1 DEF Block
<1>10. PICK v : v = Told(r, b)
    OBVIOUS
<1>11. /\ heard' = heard \o Past(r) \o b
       /\ live' \in Sessions /\ live'.tasks = Changed(last.tasks, v) /\ live'.done = last.done
       /\ v \in Tasks /\ v.id = t.id /\ v.paused = TRUE /\ v.replayed = TRUE /\ v.events = t.events \o b
    <2>1. Publish(last, r, b)
        BY <1>1
    <2>2. /\ heard' = heard \o Past(r) \o b
          /\ live' \in Sessions /\ live'.tasks = Changed(last.tasks, Told(r, b)) /\ live'.done = last.done
          /\ Told(r, b) \in Tasks /\ Told(r, b).id = r.id /\ Told(r, b).paused = r.paused
          /\ Told(r, b).replayed = TRUE /\ Told(r, b).events = r.events \o b
        BY <1>3, <1>7, <1>8, <2>1, PublishIs
    <2> QED BY <1>7, <1>10, <2>2
<1>12. TaskInv(v, n, top + 2)
    <2>1. /\ t.id <= n /\ t.events # <<>> /\ t.events[1].kind = "input" /\ t.events[1].phase = "final"
          /\ Belongs(t.events, t.id, top) /\ Ordered(t.events, Timely)
        BY <1>6 DEF Buffer
    <2>2. Belongs(v.events, t.id, top + 2) /\ Ordered(v.events, Timely)
        BY <1>2, <1>4, <1>9, <1>11, <2>1, Grows
    <2>3. v.events # <<>> /\ v.events[1] = t.events[1]
        BY <1>4, <1>8, <1>11, <2>1, FirstOfConcat
    <2>4. v.events[Len(v.events)] = b[Len(b)]
        BY <1>4, <1>8, <1>11, LastOfConcat
    <2>5. Closed(v.events)
        BY <1>4, <1>6, <1>8, <1>11, ClosedConcat DEF Block
    <2>6. Buffer(v, n, top + 2)
        BY <1>11, <2>1, <2>2, <2>3 DEF Buffer
    <2> QED BY <1>8, <1>11, <2>4, <2>5, <2>6 DEF TaskInv
<1>13. SessionInv(live', n, top + 2)
    <2>1. Replaces(live', last, v)
        BY <1>11 DEF Replaces
    <2> QED BY <1>2, <1>3, <1>11, <1>12, <2>1, SessionReplaced
<1>14. InOrder(heard', top + 2)
    <2>1. InOrder(heard, top + 1) /\ heard \in Seq(Events)
        BY <1>1, HeardSoFar DEF InOrder
    <2>2. InOrder(b, top + 2)
        BY <1>8, InOrderOfTask DEF Block
    <2>3. ASSUME NEW i \in 1 .. Len(heard), NEW j \in 1 .. Len(b)
          PROVE  heard[i].task # b[j].task \/ heard[i].id < b[j].id
        <3>1. heard[i].id <= top + 1 /\ heard[i].id \in Nat
            BY <2>1, EventAt DEF InOrder, Below
        <3>2. b[j].id = top + 2
            BY <1>8, <2>3
        <3> QED BY <1>2, <3>1, <3>2
    <2>4. InOrder(heard \o b, top + 2)
        BY <1>2, <2>1, <2>2, <2>3, InOrderConcat
    <2>5. heard' = heard \o b
        <3>1. Past(r) = <<>> /\ heard \o <<>> = heard
            BY <1>7, <2>1, ConcatEmptySeq DEF Past
        <3> QED BY <1>11, <3>1
    <2> QED BY <2>4, <2>5
<1>15. UsedInv' /\ used'.tasks = n /\ used'.events = top + 2
    <2>1. /\ used \in [runs : Nat, inputs : Nat, tasks : Nat, events : Nat, calls : Nat, faults : Nat]
          /\ used.tasks = n /\ used.events = top /\ used.faults \in Nat
        BY <1>1, InvParts
    <2>2. used' = [used EXCEPT !.events = @ + 2, !.faults = @ + 1]
        OBVIOUS
    <2>3. used.events + 2 = top + 2 /\ used.faults + 1 \in Nat
        BY <2>1
    <2>4. UsedInv'
        BY <1>2, <2>1, <2>2, <2>3 DEF UsedInv
    <2>5. used'.tasks = used.tasks /\ used'.events = used.events + 2
        BY <2>1, <2>2
    <2> QED BY <2>1, <2>4, <2>5
<1>16. SavedInv(stored', n, top + 2)
    BY <1>13, SessionFolded
<1>17. SavedInv(last', n, top + 2)
    <2>1. n <= n
        BY <1>2
    <2> QED BY <1>2, <1>3, <2>1, SavedMore
<1> QED BY <1>13, <1>14, <1>15, <1>16, <1>17 DEF EventsInv

LEMMA FailInv ==
    ASSUME EventsInv, Fail
    PROVE  EventsInv'
<1>1. CASE Gone /\ UNCHANGED stored /\ used' = [used EXCEPT !.faults = @ + 1]
    BY <1>1, GoneInv
<1>2. CASE /\ \E t \in First(last.tasks, RunningAt(last.tasks)) :
                    Publish(last, Retried(t), Final(t, Id + 1, "interrupted"))
           /\ stored' = FoldedTasks(live') /\ pc' = "failed"
           /\ used' = [used EXCEPT !.events = @ + 2, !.faults = @ + 1]
           /\ UNCHANGED last
    <2>1. pc \in {"save", "loop", "open"}
        BY DEF Fail
    <2>2. PICK t \in First(last.tasks, RunningAt(last.tasks)) :
              Publish(last, Retried(t), Final(t, Id + 1, "interrupted"))
        BY <1>2
    <2> QED BY <1>2, <2>1, <2>2, RetriedInv
<1> QED BY <1>1, <1>2 DEF Fail

LEMMA EventsInitial ==
    ASSUME Init
    PROVE  EventsInv
<1>1. used = [runs |-> 0, inputs |-> 0, tasks |-> 0, events |-> 0, calls |-> 0, faults |-> 0]
    BY DEF Init
<1>2. UsedInv
    BY <1>1 DEF UsedInv
<1>3. SavedInv(NewSession, used.tasks, used.events)
    BY NewSessionInv
<1> QED BY <1>2, <1>3 DEF Init, EventsInv

LEMMA EventsStep ==
    ASSUME EventsInv, Next
    PROVE  EventsInv'
<1>1. ASSUME NEW resume \in BOOLEAN, NEW given \in Given, Begin(resume, given) PROVE EventsInv'
    BY <1>1, BeginInv
<1>2. CASE Checkpoint
    BY <1>2, CheckpointInv
<1>3. CASE StartTask
    BY <1>3, StartTaskInv
<1>4. CASE ResumeTask
    BY <1>4, ResumeTaskInv
<1>5. ASSUME NEW t \in Range(live.tasks), Step(t) PROVE EventsInv'
    <2>1. CASE OpenMessage(t)
        BY <2>1, OpenMessageInv
    <2>2. ASSUME NEW left \in {"none", "build", "tool"}, CloseMessage(t, left) PROVE EventsInv'
        BY <2>2, CloseMessageInv
    <2>3. CASE BuildCalls(t)
        BY <2>3, BuildCallsInv
    <2>4. CASE OpenTool(t)
        BY <2>4, OpenToolInv
    <2>5. CASE AskTool(t)
        BY <2>5, AskToolInv
    <2>6. CASE Confirm(t)
        BY <2>6, ConfirmInv
    <2>7. ASSUME NEW left \in {"answer", "switch"}, NEW pushed \in Pushed, CloseTool(t, left, pushed)
          PROVE  EventsInv'
        BY <2>7, CloseToolInv
    <2>8. ASSUME NEW reports \in BOOLEAN, Close(t, reports) PROVE EventsInv'
        BY <2>8, CloseInv
    <2> QED BY <1>5, <2>1, <2>2, <2>3, <2>4, <2>5, <2>6, <2>7, <2>8 DEF Step
<1>6. CASE EndLoop
    BY <1>6, EndLoopInv
<1>7. CASE Finish
    BY <1>7, FinishInv
<1>8. CASE Fail
    BY <1>8, FailInv
<1>9. CASE Crash
    BY <1>9, GoneInv DEF Crash
<1> QED BY <1>1, <1>2, <1>3, <1>4, <1>5, <1>6, <1>7, <1>8, <1>9 DEF Next

\* The inductive invariant: what the runs tell and save of the tasks is in order
\* and, between two chains, whole (os/runtime.py, os/models.py publish).
THEOREM EventsInvariant == Spec => []EventsInv
<1>1. Init => EventsInv
    BY EventsInitial
<1>2. EventsInv /\ [Next]_vars => EventsInv'
    <2>1. CASE Next
        BY <2>1, EventsStep
    <2>2. ASSUME EventsInv, UNCHANGED vars PROVE EventsInv'
        BY <2>2 DEF vars, EventsInv, UsedInv
    <2> QED BY <2>1, <2>2, EventsStep
<1> QED BY <1>1, <1>2, PTL DEF Spec

-----------------------------------------------------------------------------
(* What is saved can be told again.                                         *)

LEMMA SavedTold ==
    ASSUME NEW n, NEW top, NEW s, SavedInv(s, n, top), NEW b \in Buffers(s)
    PROVE  /\ b.events # <<>> /\ b.events[1].kind = "input"
           /\ \A k \in DOMAIN b.events : b.events[k].phase = "final"
           /\ \A k \in 1 .. (Len(b.events) - 1) : b.events[k].id < b.events[k + 1].id
           /\ b \in Range(s.tasks) /\ b.paused => Last(b.events).kind = "interrupted"
<1>1. SessionInv(s, n, top) /\ s \in Sessions /\ \A k \in 1 .. Len(s.tasks) : All(s.tasks[k].events, Finals)
    BY DEF SavedInv, SessionInv
<1>2. PICK a : a = b.events
    OBVIOUS
<1>3. a \in Seq(Events) /\ DOMAIN a = 1 .. Len(a) /\ Len(a) \in Nat
    BY <1>1, <1>2, BufferIn, LenProperties
<1>4. a # <<>> /\ a[1].kind = "input" /\ Belongs(a, b.id, top) /\ Ordered(a, Timely)
    <2>1. Buffer(b, n, top)
        BY <1>1, BufferInv
    <2> QED BY <1>2, <2>1 DEF Buffer
<1>5. All(a, Finals)
    <2>1. (\E k \in 1 .. Len(s.tasks) : b = s.tasks[k]) \/ (\E k \in 1 .. Len(s.done) : b = s.done[k])
        BY <1>1, BufferIn
    <2>2. CASE \E k \in 1 .. Len(s.tasks) : b = s.tasks[k]
        BY <1>1, <1>2, <2>2
    <2>3. CASE \E k \in 1 .. Len(s.done) : b = s.done[k]
        BY <1>1, <1>2, <2>3 DEF SessionInv, DoneInv
    <2> QED BY <2>1, <2>2, <2>3
<1>6. \A k \in 1 .. Len(a) : a[k].phase = "final"
    BY <1>5 DEF All, Finals
<1>7. ASSUME NEW k \in 1 .. (Len(a) - 1) PROVE a[k].id < a[k + 1].id
    <2>1. k \in 1 .. Len(a) /\ k + 1 \in 1 .. Len(a) /\ k < k + 1
        BY <1>3
    <2>2. a[k].task = b.id /\ a[k + 1].task = b.id
        BY <1>4, <2>1 DEF Belongs
    <2>3. a[k].task # a[k + 1].task \/ a[k].id < a[k + 1].id
        BY <1>3, <1>4, <1>5, <2>1, FinalsApart
    <2> QED BY <2>2, <2>3
<1>8. ASSUME b \in Range(s.tasks), b.paused PROVE Last(a).kind = "interrupted"
    <2>1. s.tasks \in Seq(Tasks)
        BY <1>1, SessionParts
    <2>2. PICK k \in 1 .. Len(s.tasks) : b = s.tasks[k]
        BY <1>8, <2>1, RangeOf
    <2>3. TaskInv(b, n, top)
        BY <1>1, <2>2 DEF SessionInv
    <2> QED BY <1>2, <1>8, <2>3 DEF TaskInv, Last
<1> QED BY <1>2, <1>3, <1>4, <1>6, <1>7, <1>8

\* What the store holds of a task can be told again as it is (os/service.py
\* _filter_runtime_events_before_save, os/models.py publish).
THEOREM SavedEventsCanBeTold == Spec => []StoredCanBeTold
<1>1. EventsInv => StoredCanBeTold
    <2>1. ASSUME EventsInv PROVE StoredCanBeTold
        <3>1. SavedInv(stored, used.tasks, used.events)
            BY <2>1, InvParts
        <3>2. ASSUME NEW t \in Range(stored.tasks) \cup Range(stored.done)
              PROVE  /\ t.events # <<>> /\ t.events[1].kind = "input"
                     /\ \A k \in DOMAIN t.events : t.events[k].phase = "final"
                     /\ \A k \in 1 .. (Len(t.events) - 1) : t.events[k].id < t.events[k + 1].id
                     /\ t \in Range(stored.tasks) /\ t.paused => Last(t.events).kind = "interrupted"
            <4>1. t \in Buffers(stored)
                BY DEF Buffers
            <4> QED BY <3>1, <4>1, SavedTold
        <3> QED BY <3>2 DEF StoredCanBeTold
    <2> QED BY <2>1
<1> QED BY <1>1, EventsInvariant, PTL

-----------------------------------------------------------------------------
(* What a run has told when it ends.                                        *)

\* A task that was heard of has been told with its input first.
LEMMA HeardOf ==
    ASSUME NEW n, NEW top, NEW s, NEW h, SessionInv(s, n, top), HeardInv(s, h, n, top), ToldInv(s, h),
           NEW i \in 1 .. Len(h)
    PROVE  \E b \in Buffers(s) : /\ b.id = h[i].task /\ b.replayed
                                 /\ Keep(Keep(h, Of(b.id)), Finals) = Keep(b.events, Finals)
<1>1. h \in Seq(Events) /\ h[i] \in Events
    BY EventAt DEF HeardInv, InOrder
<1>2. h[i].task \in Known(s)
    BY DEF ToldInv, All, OfThese
<1>3. PICK b \in Buffers(s) : b.id = h[i].task
    BY <1>2 DEF Known
<1>4. b.replayed
    <2>1. ASSUME ~b.replayed PROVE FALSE
        <3>1. h[i] \notin Of(b.id)
            BY <2>1 DEF HeardInv, None
        <3> QED BY <1>1, <1>3, <3>1, IsOf
    <2> QED BY <2>1
<1> QED BY <1>3, <1>4 DEF ToldInv

LEMMA InputFirst ==
    ASSUME NEW n, NEW top, NEW s, NEW b, SessionInv(s, n, top), b \in Buffers(s)
    PROVE  Keep(b.events, Finals) # <<>> /\ Keep(b.events, Finals)[1].kind = "input"
<1>1. s \in Sessions
    BY DEF SessionInv
<1>2. b.events \in Seq(Events)
    BY <1>1, BufferIn
<1>3. /\ b.events # <<>> /\ b.events[1].kind = "input" /\ b.events[1].phase = "final"
      /\ Belongs(b.events, b.id, top) /\ Ordered(b.events, Timely)
    BY BufferInv DEF Buffer
<1> QED BY <1>2, <1>3, FinalsKept

\* The events of a chain that the collector has: all of them, without changes of agents.
LEMMA ChainIs ==
    ASSUME heard \in Seq(Events), NEW id, NEW of
    PROVE  ChainOf(id, of) =
              Keep(heard, (Of(id) \cap {e \in Events : e.kind # "frame"}) \cap {e \in Events : e.id = of})
<1>1. PICK S, T : S = {e \in Events : e.kind # "frame"} /\ T = {e \in Events : e.id = of}
    OBVIOUS
<1>2. ChainOf(id, of) = Keep(Keep(Keep(heard, Of(id)), S), T)
    BY <1>1 DEF ChainOf, Collected, OfTask
<1>3. Keep(Keep(heard, Of(id)), S) = Keep(heard, Of(id) \cap S)
    BY KeepKeep
<1>4. Keep(Keep(heard, Of(id) \cap S), T) = Keep(heard, (Of(id) \cap S) \cap T)
    BY KeepKeep
<1> QED BY <1>1, <1>2, <1>3, <1>4

LEMMA ChainBuilds ==
    ASSUME NEW top, InOrder(heard, top), Closed(heard), NEW id, NEW x \in Range(Collected(id))
    PROVE  Builds(ChainOf(id, x.id))
<1>1. heard \in Seq(Events) /\ Ordered(heard, Timely)
    BY DEF InOrder
<1>2. PICK S, c, U :
          /\ S = {e \in Events : e.kind # "frame"} /\ c = ChainOf(id, x.id)
          /\ U = (Of(id) \cap S) \cap {e \in Events : e.id = x.id}
    OBVIOUS
<1>3. c = Keep(heard, U)
    BY <1>1, <1>2, ChainIs
<1>4. PICK i \in 1 .. Len(heard) : heard[i] = x /\ x \in Of(id) \cap S
    <2>1. Collected(id) = Keep(heard, Of(id) \cap S)
        <3>1. Collected(id) = Keep(Keep(heard, Of(id)), S)
            BY <1>2 DEF Collected, OfTask
        <3>2. Keep(Keep(heard, Of(id)), S) = Keep(heard, Of(id) \cap S)
            BY <1>1, KeepKeep
        <3> QED BY <3>1, <3>2
    <2>2. PICK V, K : V = Of(id) \cap S /\ K = Keep(heard, V)
        OBVIOUS
    <2>3. K \in Seq(Events)
        BY <1>1, <2>2, KeepTyped
    <2>4. PICK p \in 1 .. Len(K) : x = K[p]
        BY <2>1, <2>2, <2>3, RangeOf
    <2>5. \A q \in 1 .. Len(K) : K[q] \in V /\ \E i \in 1 .. Len(heard) : K[q] = heard[i]
        <3>1. \A q \in 1 .. Len(Keep(heard, V)) :
                  /\ Keep(heard, V)[q] \in V
                  /\ \E i \in 1 .. Len(heard) : Keep(heard, V)[q] = heard[i]
            BY <1>1, KeepMembers
        <3> QED BY <2>2, <3>1
    <2> QED BY <2>2, <2>4, <2>5
<1>5. PICK j \in 1 .. Len(heard) : heard[j].task = x.task /\ heard[j].id = x.id /\ heard[j].phase = "final"
    BY <1>4 DEF Closed
<1>6. x \in Events /\ heard[j] \in Events /\ x.id \in Nat /\ x.task = id /\ x.kind # "frame"
    <2>1. x \in Events /\ heard[j] \in Events /\ x.id \in Nat
        BY <1>1, <1>4, EventAt
    <2>2. x.task = id /\ x.kind # "frame"
        BY <1>2, <1>4 DEF Of
    <2> QED BY <2>1, <2>2
<1>7. heard[j].kind = x.kind
    <2>1. i < j \/ j < i \/ i = j
        OBVIOUS
    <2>2. CASE i < j
        <3>1. <<heard[i], heard[j]>> \in Timely
            BY <1>1, <2>2 DEF Ordered
        <3> QED BY <1>4, <1>5, <1>6, <3>1 DEF Timely
    <2>3. CASE j < i
        <3>1. <<heard[j], heard[i]>> \in Timely
            BY <1>1, <2>3 DEF Ordered
        <3> QED BY <1>4, <1>5, <1>6, <3>1 DEF Timely
    <2> QED BY <1>4, <2>1, <2>2, <2>3
<1>8. heard[j] \in U
    <2>1. heard[j] \in Of(id)
        BY <1>5, <1>6, IsOf
    <2> QED BY <1>2, <1>5, <1>6, <1>7, <2>1
<1>9. c \in Seq(Events) /\ Ordered(c, Timely) /\ Len(c) \in Nat
    BY <1>1, <1>3, KeepTyped, OrderedKeep, LenProperties
<1>10. PICK p \in 1 .. Len(c) : c[p] = heard[j]
    BY <1>1, <1>3, <1>8, KeepMembers
<1>11. PICK l : l = c[Len(c)]
    OBVIOUS
<1>12. Len(c) \in 1 .. Len(c)
    BY <1>9, <1>10
<1>13. l \in Events /\ l.task = id /\ l.id = x.id /\ l.phase \in {"started", "end", "final"}
    <2>1. c[Len(c)] \in U
        BY <1>1, <1>3, <1>12, KeepMembers
    <2>2. l.task = id /\ l.id = x.id
        BY <1>2, <1>11, <2>1 DEF Of
    <2> QED BY <1>9, <1>11, <1>12, <2>2, EventAt
<1>14. l.phase = "final"
    <2>1. CASE p = Len(c)
        BY <1>5, <1>10, <1>11, <2>1
    <2>2. CASE p < Len(c)
        <3>1. <<c[p], l>> \in Timely
            BY <1>9, <1>11, <1>12, <2>2 DEF Ordered
        <3>2. Rank(heard[j]) = 3
            BY <1>5 DEF Rank
        <3>3. Rank(heard[j]) < Rank(l)
            BY <1>5, <1>6, <1>10, <1>13, <3>1 DEF Timely
        <3> QED BY <1>13, <3>2, <3>3 DEF Rank
    <2> QED BY <1>9, <1>10, <2>1, <2>2
<1> QED BY <1>2, <1>11, <1>14 DEF Builds, Last

\* When a run ends without an error the collector can make its outputs, if the
\* store does not keep what was told (os/event_bus/collector.py get_outputs).
THEOREM OutputsAlwaysBuild ==
    ASSUME ~Kept
    PROVE  Spec => []OutputsBuild
<1>1. EventsInv => OutputsBuild
    <2>1. SUFFICES ASSUME EventsInv, pc = "outputs", NEW id \in Heard
                   PROVE  /\ ToldOf(id) # <<>> /\ IsInput(Head(ToldOf(id)))
                          /\ \A e \in Range(Collected(id)) : Builds(ChainOf(id, e.id))
        BY DEF OutputsBuild
    <2>2. PICK n, top : n = used.tasks /\ top = used.events
        OBVIOUS
    <2>3. SessionInv(live, n, top) /\ HeardInv(live, heard, n, top) /\ ToldInv(live, heard)
        BY <2>1, <2>2, InvParts DEF RunInv
    <2>4. heard \in Seq(Events) /\ InOrder(heard, top) /\ Closed(heard)
        BY <2>3 DEF HeardInv, InOrder
    <2>5. PICK i \in 1 .. Len(heard) : heard[i].task = id
        <3>1. PICK e \in Range(heard) : id = e.task
            BY <2>1 DEF Heard
        <3> QED BY <2>4, <3>1, RangeOf
    <2>6. PICK b \in Buffers(live) : /\ b.id = id /\ b.replayed
                                     /\ Keep(Keep(heard, Of(b.id)), Finals) = Keep(b.events, Finals)
        BY <2>3, <2>5, HeardOf
    <2>7. PICK k : k = Keep(b.events, Finals)
        OBVIOUS
    <2>8. ToldOf(id) = k /\ k # <<>> /\ k[1].kind = "input" /\ k \in Seq(Events)
        <3>1. live \in Sessions
            BY <2>3 DEF SessionInv
        <3>2. b.events \in Seq(Events)
            BY <3>1, BufferIn
        <3>3. k # <<>> /\ k[1].kind = "input"
            BY <2>3, <2>7, InputFirst
        <3>4. k \in Seq(Events)
            BY <2>7, <3>2, KeepTyped
        <3> QED BY <2>6, <2>7, <3>3, <3>4 DEF ToldOf, OfTask
    <2>9. IsInput(Head(k))
        BY <2>8 DEF IsInput
    <2>10. \A e \in Range(Collected(id)) : Builds(ChainOf(id, e.id))
        BY <2>4, ChainBuilds
    <2> QED BY <2>8, <2>9, <2>10
<1> QED BY <1>1, EventsInvariant, PTL

\* When a run ends without an error, a task it went on with was told whole, in
\* order and once, and so was each that finished (os/models.py publish,
\* os/runtime.py _replay_finished_task_events_if_needed).
THEOREM TasksToldWhole ==
    ASSUME ~Kept
    PROVE  Spec => []ToldWhole
<1>1. EventsInv => ToldWhole
    <2>1. SUFFICES ASSUME EventsInv, pc = "outputs"
                   PROVE  /\ \A d \in Range(live.done) : ToldOf(d.id) = d.events
                          /\ \A t \in Range(live.tasks) : ToldOf(t.id) \in {<<>>, Folded(t.events)}
        BY DEF ToldWhole
    <2>2. PICK n, top : n = used.tasks /\ top = used.events
        OBVIOUS
    <2>3. SessionInv(live, n, top) /\ HeardInv(live, heard, n, top) /\ ToldInv(live, heard)
        BY <2>1, <2>2, InvParts DEF RunInv
    <2>4. live \in Sessions /\ heard \in Seq(Events)
        BY <2>3 DEF SessionInv, HeardInv, InOrder
    <2>5. ASSUME NEW d \in Range(live.done) PROVE ToldOf(d.id) = d.events
        <3>1. live.done \in Seq(Dones)
            BY <2>4, SessionParts
        <3>2. PICK k \in 1 .. Len(live.done) : d = live.done[k]
            BY <3>1, RangeOf
        <3>3. d \in Buffers(live) /\ d.replayed /\ d.events \in Seq(Events) /\ All(d.events, Finals)
            <4>1. d.replayed
                BY <2>1, <3>2, InvParts
            <4>2. d \in Buffers(live) /\ d.events \in Seq(Events)
                BY <2>4, <3>2, BufferIn
            <4>3. All(d.events, Finals)
                BY <2>3, <3>2 DEF SessionInv, DoneInv
            <4> QED BY <4>1, <4>2, <4>3
        <3>4. Keep(Keep(heard, Of(d.id)), Finals) = Keep(d.events, Finals)
            BY <2>3, <3>3 DEF ToldInv
        <3>5. Keep(d.events, Finals) = d.events
            BY <3>3, KeepAll
        <3> QED BY <3>4, <3>5 DEF ToldOf, OfTask
    <2>6. ASSUME NEW t \in Range(live.tasks) PROVE ToldOf(t.id) \in {<<>>, Folded(t.events)}
        <3>1. t \in Buffers(live)
            BY DEF Buffers
        <3>2. t.events \in Seq(Events) /\ t.replayed \in BOOLEAN /\ Closed(t.events)
            BY <2>3, <2>4, <3>1, BufferIn, BufferInv
        <3>3. Folded(t.events) = Keep(t.events, Finals)
            BY <3>2, FoldedFinals
        <3>4. CASE t.replayed
            <4>1. Keep(Keep(heard, Of(t.id)), Finals) = Keep(t.events, Finals)
                BY <2>3, <3>1, <3>4 DEF ToldInv
            <4> QED BY <3>3, <4>1 DEF ToldOf, OfTask
        <3>5. CASE ~t.replayed
            <4>1. Keep(heard, Of(t.id)) = <<>>
                BY <2>3, <2>4, <3>1, <3>5, KeepNone DEF HeardInv
            <4>2. ToldOf(t.id) = <<>>
                BY <4>1, KeepEmpty DEF ToldOf, OfTask
            <4> QED BY <4>2
        <3> QED BY <3>2, <3>4, <3>5
    <2> QED BY <2>5, <2>6
<1> QED BY <1>1, EventsInvariant, PTL

-----------------------------------------------------------------------------
(* The rows of the history.                                                 *)

LEMMA TogetherKeep ==
    ASSUME NEW h \in Seq(Events), Together(h), NEW S
    PROVE  Together(Keep(h, S))
<1>1. PICK K, f : K = Keep(h, S) /\ Picks(f, h, S, K)
    BY KeepPlaces
<1>2. /\ f \in [1 .. Len(K) -> 1 .. Len(h)] /\ \A p \in 1 .. Len(K) : K[p] = h[f[p]]
      /\ \A p, q \in 1 .. Len(K) : p < q => f[p] < f[q]
    BY <1>1 DEF Picks
<1>3. K \in Seq(Events) /\ Len(K) \in Nat /\ Len(h) \in Nat
    BY <1>1, KeepTyped, LenProperties
<1>4. ASSUME NEW i \in 1 .. Len(K), NEW j \in 1 .. Len(K), i < j, K[i].task = K[j].task, K[i].id = K[j].id,
             NEW k \in i .. j
      PROVE  K[k].task = K[i].task
    <2>1. k \in 1 .. Len(K) /\ (k = i \/ i < k) /\ (k = j \/ k < j)
        BY <1>3, <1>4
    <2>2. f[i] \in 1 .. Len(h) /\ f[j] \in 1 .. Len(h) /\ f[k] \in 1 .. Len(h) /\ f[i] < f[j]
        BY <1>2, <1>4, <2>1
    <2>3. f[k] \in f[i] .. f[j]
        <3>1. f[k] = f[i] \/ f[i] < f[k]
            BY <1>2, <2>1
        <3>2. f[k] = f[j] \/ f[k] < f[j]
            BY <1>2, <2>1
        <3> QED BY <1>3, <2>2, <3>1, <3>2
    <2>4. h[f[i]].task = h[f[j]].task /\ h[f[i]].id = h[f[j]].id
        BY <1>2, <1>4
    <2>5. h[f[k]].task = h[f[i]].task
        BY <2>2, <2>3, <2>4 DEF Together
    <2> QED BY <1>2, <2>1, <2>5
<1> QED BY <1>1, <1>4 DEF Together

\* An event of the history is one that was seen, or completes the task of that one.
Ends(seen, k) == k = Len(seen) \/ seen[k + 1].task # seen[k].task
Shown(seen, k) == IF Ends(seen, k) THEN <<seen[k], CompleteOf(seen[k])>> ELSE <<seen[k]>>

LEMMA CompleteIs ==
    ASSUME NEW e \in Events
    PROVE  /\ e \in Rows /\ CompleteOf(e) \in Rows /\ CompleteOf(e).task = e.task /\ CompleteOf(e).id = e.id
           /\ CompleteOf(e).kind = "complete" /\ e.kind # "complete" /\ e.id \in Nat
BY DEF Events, Rows, Kinds, CompleteOf

LEMMA ShownIs ==
    ASSUME NEW seen \in Seq(Events), NEW k \in 1 .. Len(seen)
    PROVE  /\ Shown(seen, k) \in Seq(Rows) /\ Shown(seen, k)[1] = seen[k]
           /\ Ends(seen, k) => Len(Shown(seen, k)) = 2 /\ Shown(seen, k)[2] = CompleteOf(seen[k])
           /\ ~Ends(seen, k) => Len(Shown(seen, k)) = 1
<1>1. seen[k] \in Events
    BY EventAt
<1>2. seen[k] \in Rows /\ CompleteOf(seen[k]) \in Rows
    BY <1>1, CompleteIs
<1>3. PICK e, c : e = seen[k] /\ c = CompleteOf(seen[k])
    OBVIOUS
<1>4. CASE Ends(seen, k)
    <2>1. Shown(seen, k) = <<e, c>>
        BY <1>3, <1>4 DEF Shown
    <2> QED BY <1>2, <1>3, <1>4, <2>1
<1>5. CASE ~Ends(seen, k)
    <2>1. Shown(seen, k) = <<e>>
        BY <1>3, <1>5 DEF Shown
    <2> QED BY <1>2, <1>3, <1>5, <2>1
<1> QED BY <1>4, <1>5

\* Where the events of the history come from: c says from which event that was
\* seen, o whether it is that event or completes its task.
Sources(c, o, seen, F) ==
    /\ c \in [1 .. Len(F) -> 1 .. Len(seen)] /\ o \in [1 .. Len(F) -> {1, 2}]
    /\ \A p \in 1 .. Len(F) :
          /\ o[p] = 1 => F[p] = seen[c[p]]
          /\ o[p] = 2 => F[p] = CompleteOf(seen[c[p]]) /\ Ends(seen, c[p])
    /\ \A p, q \in 1 .. Len(F) : p < q => c[p] < c[q] \/ (c[p] = c[q] /\ o[p] < o[q])
    /\ \A k \in 1 .. Len(seen) : \E p \in 1 .. Len(F) : c[p] = k /\ o[p] = 1
    /\ \A k \in 1 .. Len(seen) : Ends(seen, k) => \E p \in 1 .. Len(F) : c[p] = k /\ o[p] = 2

LEMMA HistorySources ==
    ASSUME NEW seen \in Seq(Events)
    PROVE  WithComplete(seen) \in Seq(Rows) /\ \E c, o : Sources(c, o, seen, WithComplete(seen))
<1>1. PICK F, bs, n : F = WithComplete(seen) /\ bs = [k \in DOMAIN seen |-> Shown(seen, k)] /\ n = Len(seen)
    OBVIOUS
<1>2. n \in Nat /\ DOMAIN seen = 1 .. n
    BY <1>1, LenProperties
<1>3. F = FlattenSeq(bs)
    BY <1>1 DEF WithComplete, Shown, Ends
<1>4. bs \in [1 .. n -> Seq(Rows)] /\ \A k \in 1 .. n : bs[k] = Shown(seen, k)
    BY <1>1, <1>2, ShownIs
<1>5. bs \in Seq(Seq(Rows)) /\ Len(bs) = n
    BY <1>2, <1>4, ListOfLength
<1>6. F \in Seq(Rows)
    <2>1. <<>> \in Seq(Rows)
        BY EmptySeq
    <2> QED BY <1>3, <1>5, <2>1, FlattenAppend
<1>7. PICK c, o : Places(c, o, bs, F)
    BY <1>3, <1>5, FlattenPlaces
<1>8. /\ c \in [1 .. Len(F) -> 1 .. n] /\ o \in [1 .. Len(F) -> Nat]
      /\ \A p \in 1 .. Len(F) : o[p] \in 1 .. Len(bs[c[p]]) /\ F[p] = bs[c[p]][o[p]]
      /\ \A p, q \in 1 .. Len(F) : p < q => c[p] < c[q] \/ (c[p] = c[q] /\ o[p] < o[q])
      /\ \A i \in 1 .. n : \A j \in 1 .. Len(bs[i]) : \E p \in 1 .. Len(F) : c[p] = i /\ o[p] = j
    BY <1>5, <1>7 DEF Places
<1>9. ASSUME NEW p \in 1 .. Len(F)
      PROVE  /\ o[p] \in {1, 2} /\ (o[p] = 1 => F[p] = seen[c[p]])
             /\ o[p] = 2 => F[p] = CompleteOf(seen[c[p]]) /\ Ends(seen, c[p])
    <2>1. PICK k \in 1 .. n : k = c[p]
        BY <1>8
    <2>2. o[p] \in 1 .. Len(Shown(seen, k)) /\ F[p] = Shown(seen, k)[o[p]]
        BY <1>4, <1>8, <2>1
    <2>3. k \in 1 .. Len(seen)
        BY <1>1
    <2>4. CASE Ends(seen, k)
        <3>1. Len(Shown(seen, k)) = 2 /\ Shown(seen, k)[1] = seen[k] /\ Shown(seen, k)[2] = CompleteOf(seen[k])
            BY <2>3, <2>4, ShownIs
        <3> QED BY <2>1, <2>2, <2>4, <3>1
    <2>5. CASE ~Ends(seen, k)
        <3>1. Len(Shown(seen, k)) = 1 /\ Shown(seen, k)[1] = seen[k]
            BY <2>3, <2>5, ShownIs
        <3>2. o[p] = 1
            BY <2>2, <3>1
        <3> QED BY <2>1, <2>2, <3>1, <3>2
    <2> QED BY <2>4, <2>5
<1>10. ASSUME NEW k \in 1 .. n PROVE \E p \in 1 .. Len(F) : c[p] = k /\ o[p] = 1
    <2>1. 1 \in 1 .. Len(bs[k])
        <3>1. k \in 1 .. Len(seen) /\ bs[k] = Shown(seen, k)
            BY <1>1, <1>4
        <3>2. Ends(seen, k) => Len(Shown(seen, k)) = 2
            BY <3>1, ShownIs
        <3>3. ~Ends(seen, k) => Len(Shown(seen, k)) = 1
            BY <3>1, ShownIs
        <3>4. Len(Shown(seen, k)) \in {1, 2}
            BY <3>2, <3>3
        <3>5. Len(bs[k]) \in {1, 2}
            BY <3>1, <3>4
        <3>6. \A x \in {1, 2} : 1 \in 1 .. x
            OBVIOUS
        <3> QED BY <3>5, <3>6
    <2> QED BY <1>8, <2>1
<1>11. ASSUME NEW k \in 1 .. n, Ends(seen, k) PROVE \E p \in 1 .. Len(F) : c[p] = k /\ o[p] = 2
    <2>1. 2 \in 1 .. Len(bs[k])
        <3>1. k \in 1 .. Len(seen) /\ bs[k] = Shown(seen, k)
            BY <1>1, <1>4
        <3>2. Len(Shown(seen, k)) = 2
            BY <1>11, <3>1, ShownIs
        <3> QED BY <3>1, <3>2
    <2> QED BY <1>8, <2>1
<1>12. o \in [1 .. Len(F) -> {1, 2}]
    BY <1>8, <1>9
<1>13. Sources(c, o, seen, F)
    BY <1>1, <1>8, <1>9, <1>10, <1>11, <1>12 DEF Sources
<1> QED BY <1>1, <1>6, <1>13

LEMMA SeenApart ==
    ASSUME NEW seen \in Seq(Events), Ordered(seen, Timely), All(seen, Stable),
           NEW k \in 1 .. Len(seen), NEW l \in 1 .. Len(seen), k < l, seen[k].task = seen[l].task
    PROVE  \/ seen[k].id < seen[l].id
           \/ seen[k].id = seen[l].id /\ seen[k].phase = "started" /\ seen[l].phase = "final"
<1>1. <<seen[k], seen[l]>> \in Timely
    BY DEF Ordered
<1>2. seen[k] \in Stable /\ seen[l] \in Stable
    BY DEF All
<1>3. seen[k].phase \in {"started", "final"} /\ seen[l].phase \in {"started", "final"}
    BY <1>2 DEF Stable
<1> QED BY <1>1, <1>3 DEF Timely, Rank

\* What the history has of a task is in order.
LEMMA RowsBefore ==
    ASSUME NEW seen \in Seq(Events), Ordered(seen, Timely), All(seen, Stable), Together(seen),
           NEW F \in Seq(Rows), NEW c, NEW o, Sources(c, o, seen, F),
           NEW p \in 1 .. Len(F), NEW q \in 1 .. Len(F), p < q, F[p].task = F[q].task
    PROVE  Before(F[p], F[q])
<1>1. PICK k, l, e, f : k = c[p] /\ l = c[q] /\ e = seen[k] /\ f = seen[l]
    OBVIOUS
<1>2. /\ k \in 1 .. Len(seen) /\ l \in 1 .. Len(seen) /\ o[p] \in {1, 2} /\ o[q] \in {1, 2}
      /\ k < l \/ (k = l /\ o[p] < o[q])
      /\ o[p] = 1 => F[p] = e
      /\ o[p] = 2 => F[p] = CompleteOf(e) /\ Ends(seen, k)
      /\ o[q] = 1 => F[q] = f
      /\ o[q] = 2 => F[q] = CompleteOf(f)
    BY <1>1 DEF Sources
<1>3. e \in Events /\ f \in Events
    BY <1>1, <1>2, EventAt
<1>4. /\ F[p].task = e.task /\ F[p].id = e.id /\ F[q].task = f.task /\ F[q].id = f.id
    BY <1>2, <1>3, CompleteIs
<1>5. CASE k = l
    <2>1. o[p] = 1 /\ o[q] = 2
        BY <1>2, <1>5
    <2>2. F[p] = e /\ F[q] = CompleteOf(e)
        BY <1>1, <1>2, <1>5, <2>1
    <2>3. e.kind # "complete" /\ CompleteOf(e).kind = "complete" /\ CompleteOf(e).id = e.id
        BY <1>3, CompleteIs
    <2> QED BY <2>2, <2>3 DEF Before
<1>6. CASE k < l
    <2>1. \/ e.id < f.id
          \/ e.id = f.id /\ e.phase = "started" /\ f.phase = "final"
        <3>1. seen[k].task = seen[l].task
            BY <1>1, <1>4
        <3>2. \/ seen[k].id < seen[l].id
              \/ seen[k].id = seen[l].id /\ seen[k].phase = "started" /\ seen[l].phase = "final"
            BY <1>2, <1>6, <3>1, SeenApart
        <3> QED BY <1>1, <3>2
    <2>2. CASE e.id < f.id
        BY <1>4, <2>2 DEF Before
    <2>3. CASE e.id = f.id /\ e.phase = "started" /\ f.phase = "final"
        <3>1. o[p] = 1
            <4>1. ASSUME o[p] = 2 PROVE FALSE
                <5>1. Ends(seen, k) /\ k # Len(seen)
                    BY <1>2, <1>6, <4>1
                <5>2. seen[k + 1].task # seen[k].task
                    BY <5>1 DEF Ends
                <5>3. k + 1 \in k .. l
                    BY <1>2, <1>6
                <5>4. seen[k].task = seen[l].task /\ seen[k].id = seen[l].id
                    BY <1>1, <1>4, <2>3
                <5>5. seen[k + 1].task = seen[k].task
                    BY <1>2, <1>6, <5>3, <5>4 DEF Together
                <5> QED BY <5>2, <5>5
            <4> QED BY <1>2, <4>1
        <3>2. F[p] = e /\ e.kind # "complete"
            BY <1>2, <1>3, <3>1, CompleteIs
        <3>3. CASE o[q] = 1
            BY <1>2, <2>3, <3>2, <3>3 DEF Before
        <3>4. CASE o[q] = 2
            <4>1. F[q].kind = "complete" /\ F[q].id = f.id
                BY <1>2, <1>3, <3>4, CompleteIs
            <4> QED BY <2>3, <3>2, <4>1 DEF Before
        <3> QED BY <1>2, <3>3, <3>4
    <2> QED BY <2>1, <2>2, <2>3
<1> QED BY <1>2, <1>5, <1>6

\* The last that the history has of a task completes it.
LEMMA RowsComplete ==
    ASSUME NEW seen \in Seq(Events), NEW F \in Seq(Rows), NEW c, NEW o, Sources(c, o, seen, F),
           NEW p \in 1 .. Len(F), \A q \in 1 .. Len(F) : p < q => F[q].task # F[p].task
    PROVE  F[p].kind = "complete"
<1>1. PICK k, e : k = c[p] /\ e = seen[k]
    OBVIOUS
<1>2. k \in 1 .. Len(seen) /\ Len(seen) \in Nat /\ Len(F) \in Nat /\ o[p] \in {1, 2}
    BY <1>1, LenProperties DEF Sources
<1>3. e \in Events
    BY <1>1, <1>2, EventAt
<1>4. \A q \in 1 .. Len(F) : q < p => c[q] < k \/ (c[q] = k /\ o[q] < o[p])
    BY <1>1 DEF Sources
<1>5. CASE o[p] = 2
    <2>1. F[p] = CompleteOf(e)
        BY <1>1, <1>5 DEF Sources
    <2> QED BY <1>3, <2>1, CompleteIs
<1>6. CASE o[p] = 1
    <2>1. F[p] = e
        BY <1>1, <1>6 DEF Sources
    <2>2. CASE Ends(seen, k)
        <3>1. PICK q \in 1 .. Len(F) : c[q] = k /\ o[q] = 2
            BY <1>2, <2>2 DEF Sources
        <3>2. ~(q < p) /\ q # p
            BY <1>1, <1>2, <1>4, <1>6, <3>1
        <3>3. p < q
            BY <1>2, <3>2
        <3>4. F[q] = CompleteOf(e)
            BY <1>1, <3>1 DEF Sources
        <3>5. F[q].task = F[p].task
            BY <1>3, <2>1, <3>4, CompleteIs
        <3> QED BY <3>3, <3>5
    <2>3. CASE ~Ends(seen, k)
        <3>1. k # Len(seen) /\ seen[k + 1].task = e.task
            BY <1>1, <2>3 DEF Ends
        <3>2. k + 1 \in 1 .. Len(seen) /\ ~(k + 1 < k) /\ k + 1 # k
            BY <1>2, <3>1
        <3>3. PICK q \in 1 .. Len(F) : c[q] = k + 1 /\ o[q] = 1
            BY <3>2 DEF Sources
        <3>4. ~(q < p) /\ q # p
            BY <1>1, <1>2, <1>4, <3>2, <3>3
        <3>5. p < q
            BY <1>2, <3>4
        <3>6. F[q] = seen[k + 1]
            BY <3>3 DEF Sources
        <3> QED BY <2>1, <3>1, <3>5, <3>6
    <2> QED BY <2>2, <2>3
<1> QED BY <1>2, <1>5, <1>6

\* The same of what the history has of one task.
LEMMA OwnRows ==
    ASSUME NEW top, InOrder(heard, top), NEW id
    PROVE  LET own == OfTask(History, id)
           IN  /\ own \in Seq(Rows)
               /\ \A i, j \in 1 .. Len(own) : i < j => Before(own[i], own[j])
               /\ own # <<>> => own[Len(own)].kind = "complete"
<1>1. heard \in Seq(Events) /\ Ordered(heard, Timely) /\ Together(heard)
    BY DEF InOrder
<1>2. PICK seen, F, own : seen = Keep(heard, Stable) /\ F = WithComplete(seen) /\ own = Keep(F, Of(id))
    OBVIOUS
<1>3. seen \in Seq(Events) /\ Ordered(seen, Timely) /\ Together(seen) /\ All(seen, Stable)
    <2>1. \A k \in 1 .. Len(seen) : seen[k] \in Stable
        BY <1>1, <1>2, KeepMembers
    <2> QED BY <1>1, <1>2, <2>1, KeepTyped, OrderedKeep, TogetherKeep DEF All
<1>4. F \in Seq(Rows) /\ \E c, o : Sources(c, o, seen, F)
    BY <1>2, <1>3, HistorySources
<1>5. PICK c, o : Sources(c, o, seen, F)
    BY <1>4
<1>6. PICK g : Picks(g, F, Of(id), own)
    BY <1>2, <1>4, KeepPlaces
<1>7. /\ g \in [1 .. Len(own) -> 1 .. Len(F)]
      /\ \A p \in 1 .. Len(own) : own[p] = F[g[p]] /\ own[p] \in Of(id)
      /\ \A p, q \in 1 .. Len(own) : p < q => g[p] < g[q]
      /\ \A i \in 1 .. Len(F) : F[i] \in Of(id) => \E p \in 1 .. Len(own) : g[p] = i
    BY <1>6 DEF Picks
<1>8. own \in Seq(Rows) /\ Len(own) \in Nat /\ Len(F) \in Nat
    BY <1>2, <1>4, KeepTyped, LenProperties
<1>9. ASSUME NEW i \in 1 .. Len(own), NEW j \in 1 .. Len(own), i < j PROVE Before(own[i], own[j])
    <2>1. PICK p, q : p = g[i] /\ q = g[j]
        OBVIOUS
    <2>2. p \in 1 .. Len(F) /\ q \in 1 .. Len(F) /\ p < q /\ own[i] = F[p] /\ own[j] = F[q]
        BY <1>7, <1>9, <2>1
    <2>3. F[p].task = F[q].task
        BY <1>7, <2>2 DEF Of
    <2>4. Before(F[p], F[q])
        BY <1>3, <1>4, <1>5, <2>2, <2>3, RowsBefore
    <2> QED BY <2>2, <2>4
<1>10. ASSUME own # <<>> PROVE own[Len(own)].kind = "complete"
    <2>1. Len(own) \in 1 .. Len(own)
        BY <1>8, <1>10, EmptySeq
    <2>2. PICK p : p = g[Len(own)]
        OBVIOUS
    <2>3. p \in 1 .. Len(F) /\ own[Len(own)] = F[p] /\ F[p].task = id
        BY <1>7, <2>1, <2>2 DEF Of
    <2>4. ASSUME NEW q \in 1 .. Len(F), p < q, F[q].task = F[p].task PROVE FALSE
        <3>1. F[q] \in Rows /\ F[q] \in Of(id)
            <4>1. F[q] \in Rows
                BY <1>4, ElementOfSeq
            <4> QED BY <2>3, <2>4, <4>1 DEF Of
        <3>2. PICK j \in 1 .. Len(own) : g[j] = q
            BY <1>7, <3>1
        <3>3. j # Len(own)
            BY <1>7, <2>2, <2>3, <2>4, <3>2
        <3>4. j < Len(own)
            BY <1>8, <3>3
        <3>5. g[j] < g[Len(own)]
            BY <1>7, <2>1, <3>4
        <3> QED BY <2>2, <2>3, <2>4, <3>2, <3>5
    <2>5. F[p].kind = "complete"
        BY <1>3, <1>4, <1>5, <2>3, <2>4, RowsComplete
    <2> QED BY <2>3, <2>5
<1>11. OfTask(History, id) = own
    BY <1>2 DEF OfTask, History
<1> QED BY <1>8, <1>9, <1>10, <1>11

LEMMA RowIs ==
    ASSUME NEW top, InOrder(heard, top), NEW id, Row(id) # <<>>
    PROVE  /\ Last(Row(id)).kind = "complete"
           /\ \A k \in 1 .. (Len(Row(id)) - 1) : Before(Row(id)[k], Row(id)[k + 1])
<1>1. PICK own, inputs : own = OfTask(History, id) /\ inputs = {k \in DOMAIN own : IsInput(own[k])}
    OBVIOUS
<1>2. /\ own \in Seq(Rows)
      /\ \A i, j \in 1 .. Len(own) : i < j => Before(own[i], own[j])
      /\ own # <<>> => own[Len(own)].kind = "complete"
    BY <1>1, OwnRows
<1>3. Len(own) \in Nat /\ DOMAIN own = 1 .. Len(own) /\ inputs \subseteq 1 .. Len(own)
    BY <1>1, <1>2, LenProperties
<1>4. Row(id) = IF inputs = {} THEN <<>>
                ELSE SubSeq(own, CHOOSE k \in inputs : \A j \in inputs : k <= j, Len(own))
    BY <1>1 DEF Row
<1>5. inputs # {}
    BY <1>4
<1>6. PICK i : i = CHOOSE k \in inputs : \A j \in inputs : k <= j
    OBVIOUS
<1>7. i \in inputs /\ i \in 1 .. Len(own)
    <2>1. \E k \in inputs : \A j \in inputs : k <= j
        <3>1. inputs \subseteq Nat
            BY <1>3
        <3> QED BY <1>5, <3>1, Least
    <2>2. i \in inputs
        BY <1>6, <2>1
    <2> QED BY <1>3, <2>2
<1>8. PICK row : row = SubSeq(own, i, Len(own))
    OBVIOUS
<1>9. Row(id) = row
    BY <1>4, <1>5, <1>6, <1>8
<1>10. /\ Len(row) = Len(own) - i + 1
       /\ \A k \in 1 .. Len(own) - i + 1 : row[k] = own[i + k - 1]
    <2>1. \A k \in i .. Len(own) : own[k] \in Rows
        BY <1>2, <1>3, <1>7, ElementOfSeq
    <2>2. i \in Int /\ Len(own) \in Int /\ i <= Len(own)
        BY <1>3, <1>7
    <2> QED BY <1>8, <2>1, <2>2, SubSeqProperties
<1>11. Last(row).kind = "complete"
    <2>1. Len(row) \in 1 .. Len(own) - i + 1 /\ i + Len(row) - 1 = Len(own)
        BY <1>3, <1>7, <1>10
    <2>2. row[Len(row)] = own[Len(own)]
        BY <1>10, <2>1
    <2>3. own # <<>>
        BY <1>3, <1>7, EmptySeq
    <2> QED BY <1>2, <2>2, <2>3 DEF Last
<1>12. ASSUME NEW k \in 1 .. (Len(row) - 1) PROVE Before(row[k], row[k + 1])
    <2>1. /\ k \in 1 .. Len(own) - i + 1 /\ k + 1 \in 1 .. Len(own) - i + 1
          /\ i + k - 1 \in 1 .. Len(own) /\ i + k \in 1 .. Len(own) /\ i + (k + 1) - 1 = i + k
          /\ i + k - 1 < i + k
        BY <1>3, <1>7, <1>10
    <2>2. row[k] = own[i + k - 1] /\ row[k + 1] = own[i + k]
        BY <1>10, <2>1
    <2> QED BY <1>2, <2>1, <2>2
<1> QED BY <1>9, <1>11, <1>12

\* A row of the history ends with its complete event and is in order, also when
\* the run failed and whatever was told again (service.py
\* _group_history_events_by_task_id, runtime_event_handler.py listen).
THEOREM RowsAlwaysInOrder == Spec => []RowsInOrder
<1>1. EventsInv => RowsInOrder
    <2>1. SUFFICES ASSUME EventsInv, pc \in {"outputs", "failed"}, NEW id \in Heard
                   PROVE  LET row == Row(id)
                          IN  row # <<>> => /\ Last(row).kind = "complete"
                                            /\ \A k \in 1 .. (Len(row) - 1) : Before(row[k], row[k + 1])
        BY DEF RowsInOrder
    <2>2. InOrder(heard, used.events)
        BY <2>1, InvParts DEF RunInv, HeardInv
    <2> QED BY <2>2, RowIs
<1> QED BY <1>1, EventsInvariant, PTL
=============================================================================
