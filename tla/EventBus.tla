------------------------------- MODULE EventBus -------------------------------
(***************************************************************************)
(* One channel of turtlemap's EventBus: publishers that share its lock, the*)
(* listeners an event is handed to, and the completion callback of the     *)
(* result collector, which publishes again from inside a publish.          *)
(*                                                                         *)
(* An action is what a coroutine does between two suspensions.  A listener *)
(* is seen through what it receives: `log` is the channel as a listener    *)
(* sees it that stays subscribed, `order` the sequence numbers it sees.    *)
(***************************************************************************)
EXTENDS Events

CONSTANTS
  Publishers,   \* the asyncio tasks that publish on the channel
  Nobody,       \* no task: locked_task is None
  MaxListeners, \* bound: plain listeners subscribed besides the collector
  MaxLog        \* bound: events delivered

ASSUME NobodyIsNoTask == Nobody \notin Publishers
ASSUME BusBounds      == MaxListeners \in Nat /\ MaxLog \in Nat

Places == {"out", "waiting", "listeners", "completion", "nested", "unwinding"}

VARIABLES
  holder,     \* who holds the channel's lock: `locked_task`
  waiters,    \* the publishers that wait for it, first come first served
  at,         \* where each publisher is in EventBus.publish
  sending,    \* the event each publisher is publishing
  number,     \* its sequence number
  next,       \* the next sequence number: _next_sequence
  open,       \* is the channel registered under its id?
  listeners,  \* how many plain listeners are subscribed
  counted,    \* how many there were when the completion callbacks began
  raised,     \* the publishers whose last publish raised
  log,        \* the events delivered
  order,      \* the sequence numbers they were delivered with
  closedAt    \* history: how many events were delivered before the close

lockVars == <<holder, waiters>>
seqVars  == <<number, next>>
subVars  == <<listeners, counted, raised>>
logVars  == <<log, order>>
busVars  == <<lockVars, at, sending, seqVars, open, subVars, logVars, closedAt>>
-----------------------------------------------------------------------------
Free == holder = Nobody /\ waiters = <<>>

BusInit ==
  /\ holder = Nobody
  /\ waiters = <<>>
  /\ at = [p \in Publishers |-> "out"]
  /\ sending = [p \in Publishers |-> NoEvent]
  /\ number = [p \in Publishers |-> 0]
  /\ next = 1
  /\ open = TRUE
  /\ listeners = 0 /\ counted = 0
  /\ raised = {}
  /\ log = <<>> /\ order = <<>>
  /\ closedAt = 0

Goes(p, place) == at' = [at EXCEPT ![p] = place]

\* _allocate_sequence: the counter is shared by all channels, so another
\* channel may have taken numbers in between.
TakeNumber(p) ==
  /\ number' = [number EXCEPT ![p] = next]
  /\ next' = next + 1

-----------------------------------------------------------------------------
(* EventBus.publish.                                                       *)

\* The lock is taken at once when it is free and nobody waits.  The task does
\* not hold it already: a nested publish is part of Complete.
Publish(p, e) ==
  /\ at[p] = "out" /\ open
  /\ sending' = [sending EXCEPT ![p] = e]
  /\ raised' = raised \ {p}
  /\ IF Free
     THEN /\ holder' = p
          /\ Goes(p, "listeners")
          /\ TakeNumber(p)
          /\ UNCHANGED waiters
     ELSE /\ waiters' = Append(waiters, p)
          /\ Goes(p, "waiting")
          /\ UNCHANGED <<holder, seqVars>>
  /\ UNCHANGED <<open, listeners, counted, logVars, closedAt>>

Wake(p) ==
  /\ at[p] = "waiting"
  /\ holder = Nobody
  /\ p = Head(waiters)
  /\ holder' = p
  /\ waiters' = Tail(waiters)
  /\ Goes(p, "listeners")
  /\ TakeNumber(p)
  /\ UNCHANGED <<sending, open, subVars, logVars, closedAt>>

\* _notify_listeners: gather returns when every listener has been called.
Deliver(p) ==
  /\ log' = Append(log, sending[p])
  /\ order' = Append(order, number[p])
  /\ \/ at[p] = "listeners" /\ Goes(p, "completion")
     \/ at[p] = "nested"    /\ Goes(p, "unwinding")
  /\ UNCHANGED <<lockVars, sending, seqVars, open, subVars, closedAt>>

\* Seeded fault: an exception leaves the lock taken.
ReleaseUnlessRaised(p) ==
  /\ holder' = IF counted = listeners THEN Nobody ELSE p
  /\ Goes(p, "out")

\* The `finally` of publish and the end of its `async with`.
Release(p) == holder' = Nobody /\ Goes(p, "out")

\* Seeded fault: the FINAL is published after the lock is released.
CompleteUnlocked(p) ==
  /\ at[p] = "completion"
  /\ IF open /\ Owes(sending[p])
     THEN /\ sending' = [sending EXCEPT ![p] = FinalOf(@)]
          /\ holder' = Nobody
          /\ Goes(p, "nested")
          /\ TakeNumber(p)
          /\ counted' = listeners
     ELSE /\ Release(p)
          /\ UNCHANGED <<sending, seqVars, counted>>
  /\ UNCHANGED <<waiters, open, listeners, raised, logVars, closedAt>>

\* _notify_completion_listeners: the collector publishes the FINAL at once,
\* from inside the publish that delivered the END, without taking the lock; a
\* closed channel swallows it.
Complete(p) ==
  /\ at[p] = "completion"
  /\ IF open /\ Owes(sending[p])
     THEN /\ sending' = [sending EXCEPT ![p] = FinalOf(@)]
          /\ Goes(p, "nested")
          /\ TakeNumber(p)
          /\ counted' = listeners
          /\ UNCHANGED holder
     ELSE /\ Release(p)
          /\ UNCHANGED <<sending, seqVars, counted>>
  /\ UNCHANGED <<waiters, open, listeners, raised, logVars, closedAt>>

\* Back in the loop over the subscriptions, which raises when their number
\* has changed meanwhile; the lock is released either way.
Return(p) ==
  /\ at[p] = "unwinding"
  /\ Release(p)
  /\ raised' = IF counted = listeners THEN raised ELSE raised \cup {p}
  /\ UNCHANGED <<waiters, sending, seqVars, open, listeners, counted, logVars, closedAt>>
-----------------------------------------------------------------------------
(* The other operations, by anybody at any time.                           *)

Subscribe ==
  /\ open /\ listeners < MaxListeners
  /\ listeners' = listeners + 1
  /\ UNCHANGED <<lockVars, at, sending, seqVars, open, counted, raised, logVars, closedAt>>

Unsubscribe ==
  /\ open /\ listeners > 0
  /\ listeners' = listeners - 1
  /\ UNCHANGED <<lockVars, at, sending, seqVars, open, counted, raised, logVars, closedAt>>

\* close_event_bus: the id is forgotten; publications under way keep the channel
\* object and its subscriptions.
Close ==
  /\ open
  /\ open' = FALSE
  /\ closedAt' = Len(log)
  /\ UNCHANGED <<lockVars, at, sending, seqVars, subVars, logVars>>
-----------------------------------------------------------------------------
BusStep(p) == Wake(p) \/ Deliver(p) \/ Complete(p) \/ Return(p)

Published(i) == {log[j].phase : j \in {k \in DOMAIN log : log[k].id = i}}

\* The callers' discipline: a chain is published by one task at a time, from
\* STARTED to END, with deltas in a message only; its FINAL is the collector's.
\* Every other event is a FINAL of its own.
MayPublish(e) ==
  /\ (e.phase = "FINAL") = ~IsChain(e)
  /\ \A p \in Publishers : at[p] # "out" => sending[p].id # e.id
  /\ \A j \in DOMAIN log : log[j].id = e.id => FinalOf(log[j]) = FinalOf(e)
  /\ \/ e.phase \in {"STARTED", "FINAL"} /\ Published(e.id) = {}
     \/ e.phase = "IN_PROGRESS" /\ e.kind = "MESSAGE"
        /\ "STARTED" \in Published(e.id) /\ "END" \notin Published(e.id)
     \/ e.phase = "END" /\ "STARTED" \in Published(e.id) /\ "END" \notin Published(e.id)

Publishes(p) ==
  /\ Len(log) + Len(waiters) < MaxLog
  /\ \E e \in Event : MayPublish(e) /\ Publish(p, e)

BusNext ==
  \/ Subscribe \/ Unsubscribe \/ Close
  \/ \E p \in Publishers : Publishes(p) \/ BusStep(p)

\* The event loop runs every coroutine that is ready.
BusSpec ==
  /\ BusInit /\ [][BusNext]_busVars
  /\ \A p \in Publishers : WF_busVars(BusStep(p))
-----------------------------------------------------------------------------
(* Properties.                                                             *)

\* Types of the channel's state.
BusTypeOK ==
  /\ holder \in Publishers \cup {Nobody}
  /\ waiters \in Seq(Publishers)
  /\ at \in [Publishers -> Places]
  /\ sending \in [Publishers -> Event]
  /\ number \in [Publishers -> Nat]
  /\ next \in Nat
  /\ open \in BOOLEAN
  /\ listeners \in Nat /\ counted \in Nat
  /\ raised \subseteq Publishers
  /\ log \in Seq(Event)
  /\ order \in Seq(Nat)
  /\ closedAt \in Nat

\* As long as the channel is open, a listener that has just seen the END of a
\* chain the collector follows sees its FINAL next, whoever else publishes
\* (event_bus.py:185-200).
FinalFollowsEnd ==
  \A i \in DOMAIN log :
    /\ Owes(log[i])
    /\ i + 1 \in DOMAIN log
    /\ open \/ i < closedAt
    => log[i + 1] = FinalOf(log[i])

\* Listeners see the events of a channel in the order of their sequence numbers,
\* the numbers the collector later sorts the outputs by (event_bus.py:186).
InSequence == \A i, j \in DOMAIN order : i < j => order[i] < order[j]

\* Every publisher that waits is served, also behind a publish that raised.
Served == \A p \in Publishers : at[p] = "waiting" ~> at[p] = "out"

\* The FINAL the collector owes to the listeners of the log.
OwedNow ==
  IF \E p \in Publishers :
       /\ holder = p
       /\ at[p] = "nested" \/ (at[p] = "completion" /\ open /\ Owes(sending[p]))
  THEN <<FinalOf(sending[holder])>>
  ELSE <<>>

Stream == INSTANCE EventStream WITH stream <- log, owed <- OwedNow

\* The channel implements the stream of events: the abstract module's Spec.
ImplementsStream == Stream!Spec
=============================================================================
