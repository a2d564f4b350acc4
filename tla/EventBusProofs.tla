---------------------------- MODULE EventBusProofs ----------------------------
(***************************************************************************)
(* Proofs about one channel of the event bus, for any number of publishers *)
(* and listeners and a log of any length.                                  *)
(***************************************************************************)
EXTENDS EventBus, SequenceTheorems, TLAPS

InsidePlaces == {"listeners", "completion", "nested", "unwinding"}

Inside(p) == at[p] \in InsidePlaces

\* The lock and the places agree: who is inside a publish holds the lock.
LockOK == \A p \in Publishers : Inside(p) <=> holder = p

\* The last event delivered is an END that is still owed its FINAL.
Unanswered ==
  /\ log # <<>>
  /\ Owes(log[Len(log)])
  /\ open \/ Len(log) < closedAt

\* ... and the publisher that holds the lock is about to pay.
OwedByHolder ==
  Unanswered => \E p \in Publishers :
    /\ holder = p
    /\ \/ at[p] = "completion" /\ sending[p] = log[Len(log)]
       \/ at[p] = "nested" /\ sending[p] = FinalOf(log[Len(log)])

\* What is published from the completion callback is a FINAL, and the END that
\* waits for the callback is the last event delivered.
Answering ==
  \A p \in Publishers :
    /\ at[p] \in {"nested", "unwinding"} => sending[p].phase = "FINAL"
    /\ at[p] = "completion" => log # <<>> /\ log[Len(log)] = sending[p]

\* The publisher inside has a number above all that were delivered, below next.
Numbered ==
  /\ next \in Nat
  /\ \A i \in DOMAIN order : order[i] < next
  /\ \A p \in Publishers :
       at[p] \in {"listeners", "nested"} =>
         number[p] < next /\ \A i \in DOMAIN order : order[i] < number[p]

\* The inductive invariant.
BusInv ==
  /\ BusTypeOK
  /\ LockOK
  /\ Len(order) = Len(log)
  /\ closedAt <= Len(log)
  /\ FinalFollowsEnd
  /\ OwedByHolder
  /\ Answering
  /\ InSequence
  /\ Numbered
-----------------------------------------------------------------------------
\* An event and its FINAL are events, and NoEvent is one.
LEMMA EventFacts ==
  /\ NoEvent \in Event
  /\ \A e \in Event : FinalOf(e) \in Event /\ FinalOf(e).phase = "FINAL"
  /\ \A e \in Event : e.phase = "FINAL" => FinalOf(e) = e /\ ~Owes(e)
<1>1. NoEvent \in Event
  BY IdsAndTasks DEF NoEvent, Event, OtherKinds, Phases
<1>2. ASSUME NEW e \in Event
      PROVE  /\ FinalOf(e) \in Event /\ FinalOf(e).phase = "FINAL"
             /\ e.phase = "FINAL" => FinalOf(e) = e /\ ~Owes(e)
  BY DEF FinalOf, Event, Phases, Owes
<1> QED  BY <1>1, <1>2

\* The channel's state keeps its type.
LEMMA BusTypeStep ==
  ASSUME BusTypeOK, BusNext
  PROVE  BusTypeOK'
<1> USE DEF BusTypeOK, Places, lockVars, seqVars, subVars, logVars
<1>1. CASE Subscribe
  BY <1>1 DEF Subscribe
<1>2. CASE Unsubscribe
  BY <1>2 DEF Unsubscribe
<1>3. CASE Close
  BY <1>3, LenProperties DEF Close
<1>4. ASSUME NEW p \in Publishers, NEW e \in Event, Publish(p, e)
      PROVE  BusTypeOK'
  <2>1. CASE Free
    <3>1. at' \in [Publishers -> Places]
      BY <1>4, <2>1 DEF Publish, Goes
    <3>2. number' \in [Publishers -> Nat] /\ next' \in Nat
      BY <1>4, <2>1 DEF Publish, TakeNumber
    <3>3. sending' \in [Publishers -> Event] /\ holder' \in Publishers
      BY <1>4, <2>1 DEF Publish
    <3>4. waiters' = waiters /\ raised' \subseteq Publishers
      BY <1>4, <2>1 DEF Publish
    <3> QED  BY <1>4, <3>1, <3>2, <3>3, <3>4 DEF Publish
  <2>2. CASE ~Free
    <3>0. waiters' = Append(waiters, p)
      BY <1>4, <2>2 DEF Publish
    <3>1. waiters' \in Seq(Publishers)
      BY <3>0, AppendProperties
    <3>2. at' \in [Publishers -> Places]
      BY <1>4, <2>2 DEF Publish, Goes
    <3>3. sending' \in [Publishers -> Event] /\ raised' \subseteq Publishers
      BY <1>4 DEF Publish
    <3>4. UNCHANGED <<holder, number, next>>
      BY <1>4, <2>2 DEF Publish
    <3> QED  BY <1>4, <3>1, <3>2, <3>3, <3>4 DEF Publish
  <2> QED  BY <2>1, <2>2
<1>5. ASSUME NEW p \in Publishers, Wake(p)
      PROVE  BusTypeOK'
  <2>1. waiters' \in Seq(Publishers)
    <3>1. CASE waiters = <<>>
      BY <1>5, <3>1 DEF Wake
    <3>2. CASE waiters # <<>>
      BY <1>5, <3>2, HeadTailProperties DEF Wake
    <3> QED  BY <3>1, <3>2
  <2>2. at' \in [Publishers -> Places] /\ number' \in [Publishers -> Nat] /\ next' \in Nat
    BY <1>5 DEF Wake, Goes, TakeNumber
  <2> QED  BY <1>5, <2>1, <2>2 DEF Wake
<1>6. ASSUME NEW p \in Publishers, Deliver(p)
      PROVE  BusTypeOK'
  <2>1. log' \in Seq(Event) /\ order' \in Seq(Nat)
    BY <1>6, AppendProperties DEF Deliver
  <2>2. at' \in [Publishers -> Places]
    BY <1>6 DEF Deliver, Goes
  <2> QED  BY <1>6, <2>1, <2>2 DEF Deliver
<1>7. ASSUME NEW p \in Publishers, Complete(p)
      PROVE  BusTypeOK'
  <2>1. CASE open /\ Owes(sending[p])
    <3>1. FinalOf(sending[p]) \in Event
      BY EventFacts
    <3>2. sending' \in [Publishers -> Event]
      BY <1>7, <2>1, <3>1 DEF Complete
    <3>3. at' \in [Publishers -> Places]
      BY <1>7, <2>1 DEF Complete, Goes
    <3>4. number' \in [Publishers -> Nat] /\ next' \in Nat
      <4>1. TakeNumber(p)
        BY <1>7, <2>1, Zenon DEF Complete
      <4> QED  BY <4>1 DEF TakeNumber
    <3>5. holder' = holder /\ counted' = listeners
      BY <1>7, <2>1 DEF Complete
    <3>6. UNCHANGED <<waiters, open, listeners, raised, log, order, closedAt>>
      BY <1>7 DEF Complete
    <3> QED  BY <3>2, <3>3, <3>4, <3>5, <3>6
  <2>2. CASE ~(open /\ Owes(sending[p]))
    BY <1>7, <2>2 DEF Complete, Release, Goes
  <2> QED  BY <2>1, <2>2
<1>8. ASSUME NEW p \in Publishers, Return(p)
      PROVE  BusTypeOK'
  BY <1>8 DEF Return, Release, Goes
<1> QED  BY <1>1, <1>2, <1>3, <1>4, <1>5, <1>6, <1>7, <1>8
         DEF BusNext, Publishes, BusStep

\* The lock follows the places.
LEMMA LockStep ==
  ASSUME BusTypeOK, LockOK, BusNext
  PROVE  LockOK'
<1> USE NobodyIsNoTask DEF BusTypeOK, LockOK, Inside, InsidePlaces, Places
<1>1. CASE Subscribe \/ Unsubscribe \/ Close
  BY <1>1 DEF Subscribe, Unsubscribe, Close, lockVars
<1>2. ASSUME NEW p \in Publishers, NEW e \in Event, Publish(p, e)
      PROVE  LockOK'
  BY <1>2 DEF Publish, Goes, Free
<1>3. ASSUME NEW p \in Publishers, Wake(p)
      PROVE  LockOK'
  BY <1>3 DEF Wake, Goes
<1>4. ASSUME NEW p \in Publishers, Deliver(p)
      PROVE  LockOK'
  BY <1>4 DEF Deliver, Goes, lockVars
<1>5. ASSUME NEW p \in Publishers, Complete(p)
      PROVE  LockOK'
  BY <1>5 DEF Complete, Release, Goes
<1>6. ASSUME NEW p \in Publishers, Return(p)
      PROVE  LockOK'
  BY <1>6 DEF Return, Release, Goes
<1> QED  BY <1>1, <1>2, <1>3, <1>4, <1>5, <1>6 DEF BusNext, Publishes, BusStep

\* A delivery appends one event and its number.
LEMMA Delivery ==
  ASSUME BusTypeOK, NEW p \in Publishers, Deliver(p)
  PROVE  /\ Len(log') = Len(log) + 1 /\ DOMAIN log' = 1 .. Len(log) + 1
         /\ log'[Len(log) + 1] = sending[p]
         /\ \A i \in 1 .. Len(log) : log'[i] = log[i]
         /\ Len(order') = Len(order) + 1 /\ DOMAIN order' = 1 .. Len(order) + 1
         /\ order'[Len(order) + 1] = number[p]
         /\ \A i \in 1 .. Len(order) : order'[i] = order[i]
<1>1. log \in Seq(Event) /\ sending[p] \in Event /\ order \in Seq(Nat) /\ number[p] \in Nat
  BY DEF BusTypeOK
<1> QED  BY <1>1, AppendProperties DEF Deliver

\* A log that grows by one event at its end keeps FinalFollowsEnd when the event
\* answers what is unanswered.
LEMMA AppendFollows ==
  ASSUME BusTypeOK, FinalFollowsEnd, closedAt <= Len(log),
         NEW p \in Publishers, Deliver(p),
         Unanswered => sending[p] = FinalOf(log[Len(log)])
  PROVE  FinalFollowsEnd'
<1> SUFFICES ASSUME NEW i \in DOMAIN log', Owes(log'[i]), i + 1 \in DOMAIN log',
                    open' \/ i < closedAt'
             PROVE  log'[i + 1] = FinalOf(log'[i])
  BY DEF FinalFollowsEnd
<1>1. log \in Seq(Event) /\ closedAt \in Nat
  BY DEF BusTypeOK
<1>2. open' = open /\ closedAt' = closedAt
  BY DEF Deliver
<1>3. i \in 1 .. Len(log) /\ log'[i] = log[i] /\ Len(log) \in Nat
  BY <1>1, Delivery, LenProperties
<1>4. CASE i = Len(log)
  BY <1>1, <1>2, <1>3, <1>4, Delivery DEF Unanswered
<1>5. CASE i # Len(log)
  BY <1>1, <1>2, <1>3, <1>5, Delivery DEF FinalFollowsEnd
<1> QED  BY <1>4, <1>5

\* What a delivery does to the END that waits for its FINAL.
LEMMA DeliverStep ==
  ASSUME BusTypeOK, LockOK, closedAt <= Len(log), FinalFollowsEnd, OwedByHolder,
         Answering, NEW p \in Publishers, Deliver(p)
  PROVE  FinalFollowsEnd' /\ OwedByHolder' /\ Answering'
<1>1. holder = p /\ \A q \in Publishers : q # p => ~Inside(q)
  BY DEF LockOK, Inside, InsidePlaces, Deliver
<1>2. Unanswered => at[p] = "nested" /\ sending[p] = FinalOf(log[Len(log)])
  BY <1>1 DEF OwedByHolder, Deliver
<1>3. FinalFollowsEnd'
  BY <1>2, AppendFollows
<1>4. log' # <<>> /\ log'[Len(log')] = sending[p] /\ log'[Len(log')] = sending'[p]
  <2>1. log \in Seq(Event) /\ sending[p] \in Event
    BY DEF BusTypeOK
  <2> QED  BY <2>1, AppendProperties, Delivery DEF Deliver
<1>5. Answering'
  BY <1>1, <1>4 DEF Answering, Deliver, Goes, BusTypeOK, Inside, InsidePlaces
<1>6. OwedByHolder'
  <2>1. CASE at[p] = "listeners"
    BY <1>1, <1>4, <2>1 DEF OwedByHolder, Unanswered, Deliver, Goes, BusTypeOK, lockVars
  <2>2. CASE at[p] = "nested"
    <3>1. sending[p].phase = "FINAL" /\ sending[p] \in Event
      BY <2>2 DEF Answering, BusTypeOK
    <3> QED  BY <1>4, <3>1, EventFacts DEF OwedByHolder, Unanswered
  <2> QED  BY <2>1, <2>2 DEF Deliver
<1> QED  BY <1>3, <1>5, <1>6

\* The completion callback begins the FINAL of the END just delivered, or there
\* is nothing to answer.
LEMMA CompleteStep ==
  ASSUME BusTypeOK, LockOK, closedAt <= Len(log), FinalFollowsEnd, OwedByHolder,
         Answering, NEW p \in Publishers, Complete(p)
  PROVE  FinalFollowsEnd' /\ OwedByHolder' /\ Answering'
<1>1. UNCHANGED <<log, open, closedAt>> /\ at[p] = "completion"
  BY DEF Complete, logVars
<1>2. FinalFollowsEnd'
  BY <1>1 DEF FinalFollowsEnd
<1>3. log # <<>> /\ log[Len(log)] = sending[p] /\ sending[p] \in Event /\ holder = p
  BY <1>1 DEF Answering, BusTypeOK, LockOK, Inside, InsidePlaces
<1>4. CASE open /\ Owes(sending[p])
  <2>1. /\ at' = [at EXCEPT ![p] = "nested"]
        /\ sending' = [sending EXCEPT ![p] = FinalOf(sending[p])]
        /\ holder' = p
    BY <1>3, <1>4, Zenon DEF Complete, Goes
  <2>2. FinalOf(sending[p]).phase = "FINAL"
    BY <1>3, EventFacts
  <2>3. Answering'
    BY <1>1, <2>1, <2>2 DEF Answering, BusTypeOK
  <2>4. OwedByHolder'
    BY <1>1, <1>3, <2>1 DEF OwedByHolder, Unanswered, BusTypeOK
  <2> QED  BY <1>2, <2>3, <2>4
<1>5. CASE ~(open /\ Owes(sending[p]))
  <2>1. at' = [at EXCEPT ![p] = "out"] /\ sending' = sending
    BY <1>5, Zenon DEF Complete, Release, Goes
  <2>2. Answering'
    BY <1>1, <2>1 DEF Answering, BusTypeOK
  <2>3. ~Unanswered
    <3>1. Len(log) \in Nat /\ closedAt \in Nat
      BY LenProperties DEF BusTypeOK
    <3> QED  BY <1>3, <1>5, <3>1 DEF Unanswered
  <2>4. OwedByHolder'
    BY <1>1, <2>3 DEF OwedByHolder, Unanswered
  <2> QED  BY <1>2, <2>2, <2>4
<1> QED  BY <1>4, <1>5

\* The steps that deliver nothing and complete nothing.
LEMMA QuietStep ==
  ASSUME BusTypeOK, LockOK, closedAt <= Len(log), FinalFollowsEnd, OwedByHolder,
         Answering,
         \/ Subscribe \/ Unsubscribe \/ Close
         \/ \E p \in Publishers : Wake(p) \/ Return(p) \/ \E e \in Event : Publish(p, e)
  PROVE  FinalFollowsEnd' /\ OwedByHolder' /\ Answering'
<1>1. Len(log) \in Nat /\ closedAt \in Nat /\ log \in Seq(Event)
  BY LenProperties DEF BusTypeOK
<1>2. CASE Subscribe \/ Unsubscribe
  BY <1>2 DEF Subscribe, Unsubscribe, logVars, lockVars, FinalFollowsEnd, OwedByHolder,
              Unanswered, Answering
<1>3. CASE Close
  <2>1. UNCHANGED <<log, at, sending, holder>> /\ ~open' /\ open /\ closedAt' = Len(log)
    BY <1>3 DEF Close, logVars, lockVars
  <2>2. FinalFollowsEnd'
    BY <2>1 DEF FinalFollowsEnd
  <2>3. OwedByHolder'
    BY <1>1, <2>1 DEF OwedByHolder, Unanswered
  <2> QED  BY <2>1, <2>2, <2>3 DEF Answering
<1>4. ASSUME NEW p \in Publishers, Wake(p)
      PROVE  FinalFollowsEnd' /\ OwedByHolder' /\ Answering'
  <2>1. /\ UNCHANGED <<log, open, closedAt, sending>> /\ holder = Nobody
        /\ at' = [at EXCEPT ![p] = "listeners"]
    BY <1>4 DEF Wake, logVars, Goes
  <2>2. ~Unanswered
    BY <2>1, NobodyIsNoTask DEF OwedByHolder
  <2> QED  BY <2>1, <2>2 DEF FinalFollowsEnd, OwedByHolder, Unanswered, Answering, BusTypeOK
<1>5. ASSUME NEW p \in Publishers, Return(p)
      PROVE  FinalFollowsEnd' /\ OwedByHolder' /\ Answering'
  <2>1. /\ UNCHANGED <<log, open, closedAt, sending>>
        /\ at[p] = "unwinding" /\ at' = [at EXCEPT ![p] = "out"]
    BY <1>5 DEF Return, Release, logVars, Goes
  <2>2. ~Unanswered
    BY <2>1 DEF OwedByHolder, LockOK, Inside, InsidePlaces
  <2> QED  BY <2>1, <2>2 DEF FinalFollowsEnd, OwedByHolder, Unanswered, Answering, BusTypeOK
<1>6. ASSUME NEW p \in Publishers, NEW e \in Event, Publish(p, e)
      PROVE  FinalFollowsEnd' /\ OwedByHolder' /\ Answering'
  <2>1. /\ UNCHANGED <<log, open, closedAt>> /\ at[p] = "out"
        /\ sending' = [sending EXCEPT ![p] = e]
    BY <1>6 DEF Publish, logVars
  <2>2. \/ at' = [at EXCEPT ![p] = "listeners"] /\ holder = Nobody
        \/ at' = [at EXCEPT ![p] = "waiting"] /\ holder' = holder
    BY <1>6, Zenon DEF Publish, Goes, Free
  <2>3. FinalFollowsEnd'
    BY <2>1 DEF FinalFollowsEnd
  <2>4. Answering'
    BY <2>1, <2>2 DEF Answering, BusTypeOK
  <2>5. OwedByHolder'
    BY <2>1, <2>2, NobodyIsNoTask DEF OwedByHolder, Unanswered, BusTypeOK
  <2> QED  BY <2>3, <2>4, <2>5
<1> QED  BY <1>2, <1>3, <1>4, <1>5, <1>6

\* The sequence numbers grow along the log.
LEMMA NumberStep ==
  ASSUME BusTypeOK, LockOK, InSequence, Numbered, BusNext
  PROVE  InSequence' /\ Numbered'
<1>1. /\ next \in Nat /\ order \in Seq(Nat)
      /\ number \in [Publishers -> Nat] /\ at \in [Publishers -> Places]
  BY DEF BusTypeOK
<1>2. \A i \in DOMAIN order : order[i] \in Nat
  BY <1>1
\* A publisher that enters takes the next number.
<1>3. ASSUME NEW p \in Publishers, NEW place \in Places, Goes(p, place), TakeNumber(p),
             order' = order
      PROVE  InSequence' /\ Numbered'
  <2>1. next' \in Nat /\ next < next' /\ number'[p] = next
    BY <1>1, <1>3 DEF TakeNumber
  <2>2. \A i \in DOMAIN order : order[i] < next /\ order[i] < next'
    BY <1>1, <1>2, <2>1 DEF Numbered
  <2>3. ASSUME NEW q \in Publishers, at'[q] \in {"listeners", "nested"}
        PROVE  number'[q] < next' /\ \A i \in DOMAIN order' : order'[i] < number'[q]
    <3>1. CASE q = p
      BY <1>3, <2>1, <2>2, <3>1
    <3>2. CASE q # p
      <4>1. at[q] \in {"listeners", "nested"} /\ number'[q] = number[q] /\ number[q] \in Nat
        BY <1>1, <1>3, <2>3, <3>2 DEF Goes, TakeNumber
      <4> QED  BY <1>1, <1>3, <2>1, <4>1 DEF Numbered
    <3> QED  BY <3>1, <3>2
  <2> QED  BY <1>3, <2>1, <2>2, <2>3 DEF InSequence, Numbered
\* Otherwise nobody's number changes and nobody comes to a delivery.
<1>4. ASSUME UNCHANGED <<order, number, next>>,
             \A p \in Publishers : at'[p] \in {"listeners", "nested"} =>
                                   at[p] \in {"listeners", "nested"}
      PROVE  InSequence' /\ Numbered'
  BY <1>4 DEF InSequence, Numbered
<1>5. CASE Subscribe \/ Unsubscribe \/ Close
  BY <1>4, <1>5 DEF Subscribe, Unsubscribe, Close, logVars, seqVars
<1>6. ASSUME NEW p \in Publishers, NEW e \in Event, Publish(p, e)
      PROVE  InSequence' /\ Numbered'
  <2>1. \/ Goes(p, "listeners") /\ TakeNumber(p)
        \/ at' = [at EXCEPT ![p] = "waiting"] /\ UNCHANGED <<number, next>>
    BY <1>6, Zenon DEF Publish, Goes, seqVars
  <2>2. order' = order
    BY <1>6 DEF Publish, logVars
  <2> QED  BY <1>1, <1>3, <1>4, <2>1, <2>2 DEF Places
<1>7. ASSUME NEW p \in Publishers, Wake(p)
      PROVE  InSequence' /\ Numbered'
  BY <1>3, <1>7 DEF Wake, Places, logVars
<1>8. ASSUME NEW p \in Publishers, Complete(p)
      PROVE  InSequence' /\ Numbered'
  <2>1. \/ Goes(p, "nested") /\ TakeNumber(p)
        \/ at' = [at EXCEPT ![p] = "out"] /\ UNCHANGED <<number, next>>
    BY <1>8, Zenon DEF Complete, Release, Goes, seqVars
  <2>2. order' = order
    BY <1>8 DEF Complete, logVars
  <2> QED  BY <1>1, <1>3, <1>4, <2>1, <2>2 DEF Places
<1>9. ASSUME NEW p \in Publishers, Return(p)
      PROVE  InSequence' /\ Numbered'
  BY <1>1, <1>4, <1>9 DEF Return, Release, Goes, seqVars, logVars
<1>10. ASSUME NEW p \in Publishers, Deliver(p)
       PROVE  InSequence' /\ Numbered'
  <2>1. at[p] \in {"listeners", "nested"} /\ UNCHANGED <<number, next>>
    BY <1>10 DEF Deliver, seqVars
  <2>2. \A q \in Publishers : at'[q] \notin {"listeners", "nested"}
    BY <1>1, <1>10, <2>1 DEF LockOK, Inside, InsidePlaces, Deliver, Goes
  <2>3. number[p] < next /\ \A i \in DOMAIN order : order[i] < number[p]
    BY <2>1 DEF Numbered
  <2>4. DOMAIN order = 1 .. Len(order) /\ Len(order) \in Nat
    BY <1>1, LenProperties
  <2>5. InSequence'
    BY <1>10, <2>3, <2>4, Delivery DEF InSequence
  <2>6. \A i \in DOMAIN order' : order'[i] < next'
    BY <1>10, <2>1, <2>3, <2>4, Delivery DEF Numbered
  <2> QED  BY <2>1, <2>2, <2>5, <2>6 DEF Numbered
<1> QED  BY <1>5, <1>6, <1>7, <1>8, <1>9, <1>10 DEF BusNext, Publishes, BusStep

\* The two halves of the log have one length, and the close lies in the past.
LEMMA LengthStep ==
  ASSUME BusTypeOK, Len(order) = Len(log), closedAt <= Len(log), BusNext
  PROVE  Len(order') = Len(log') /\ closedAt' <= Len(log')
<1>1. Len(log) \in Nat /\ closedAt \in Nat
  BY LenProperties DEF BusTypeOK
<1>2. ASSUME NEW p \in Publishers, Deliver(p)
      PROVE  Len(order') = Len(log') /\ closedAt' <= Len(log')
  <2>1. closedAt' = closedAt
    BY <1>2 DEF Deliver
  <2> QED  BY <1>1, <1>2, <2>1, Delivery
<1>3. CASE Close
  BY <1>1, <1>3 DEF Close, logVars
<1>4. ASSUME ~Close, \A p \in Publishers : ~Deliver(p)
      PROVE  UNCHANGED <<log, order, closedAt>>
  BY <1>4 DEF BusNext, BusStep, Publishes, Subscribe, Unsubscribe, Publish, Wake, Complete,
              Return, logVars
<1> QED  BY <1>2, <1>3, <1>4

\* The invariant is inductive.
LEMMA BusInvStep ==
  ASSUME BusInv, BusNext
  PROVE  BusInv'
<1> USE DEF BusInv
<1>1. BusTypeOK' /\ LockOK' /\ InSequence' /\ Numbered'
  BY BusTypeStep, LockStep, NumberStep
<1>2. Len(order') = Len(log') /\ closedAt' <= Len(log')
  BY LengthStep
<1>3. FinalFollowsEnd' /\ OwedByHolder' /\ Answering'
  <2>1. CASE \E p \in Publishers : Deliver(p)
    BY <2>1, DeliverStep
  <2>2. CASE \E p \in Publishers : Complete(p)
    BY <2>2, CompleteStep
  <2>3. CASE \/ Subscribe \/ Unsubscribe \/ Close
             \/ \E p \in Publishers : Wake(p) \/ Return(p) \/ \E e \in Event : Publish(p, e)
    BY <2>3, QuietStep
  <2> QED  BY <2>1, <2>2, <2>3 DEF BusNext, BusStep, Publishes
<1> QED  BY <1>1, <1>2, <1>3

\* It holds in every state of the bus.
THEOREM BusInvariant == BusSpec => []BusInv
<1>1. BusInit => BusInv
  BY EventFacts, NobodyIsNoTask
  DEF BusInit, BusInv, BusTypeOK, Places, LockOK, Inside, InsidePlaces, FinalFollowsEnd,
      OwedByHolder, Unanswered, Answering, InSequence, Numbered
<1>2. BusInv /\ [BusNext]_busVars => BusInv'
  <2>1. ASSUME BusInv, UNCHANGED busVars
        PROVE  BusInv'
    BY <2>1 DEF BusInv, busVars, lockVars, seqVars, subVars, logVars, BusTypeOK, LockOK,
      Inside, FinalFollowsEnd, OwedByHolder, Unanswered, Answering, InSequence, Numbered
  <2> QED  BY <2>1, BusInvStep
<1> QED  BY <1>1, <1>2, PTL DEF BusSpec

\* No END of a collected chain is followed by anything but its FINAL while the
\* channel is open, whatever publishers wait, subscribe, raise or close.
THEOREM EndsAreAnswered == BusSpec => []FinalFollowsEnd
BY BusInvariant, PTL DEF BusInv

\* Events reach the listeners in the order of their sequence numbers.
THEOREM DeliveredInSequence == BusSpec => []InSequence
BY BusInvariant, PTL DEF BusInv

\* The channel's state is well-formed.
THEOREM BusTypeCorrect == BusSpec => []BusTypeOK
BY BusInvariant, PTL DEF BusInv
-----------------------------------------------------------------------------
(* The bus implements the stream of events.                                *)

\* The publisher p has a FINAL to deliver.
Pays(p) == at[p] = "nested" \/ (at[p] = "completion" /\ open /\ Owes(sending[p]))

\* What is owed is seen at the holder of the lock.
LEMMA OwedAtHolder ==
  /\ \A p \in Publishers : holder = p =>
       OwedNow = IF Pays(p) THEN <<FinalOf(sending[p])>> ELSE <<>>
  /\ holder = Nobody => OwedNow = <<>>
BY NobodyIsNoTask DEF OwedNow, Pays

\* The same in the next state.
LEMMA OwedAtHolderNext ==
  /\ \A p \in Publishers : holder' = p =>
       OwedNow' = IF Pays(p)' THEN <<FinalOf(sending'[p])>> ELSE <<>>
  /\ holder' = Nobody => OwedNow' = <<>>
BY NobodyIsNoTask DEF OwedNow, Pays

\* An event told is an event of the stream, and an answer is what was owed.
LEMMA DeliverImplements ==
  ASSUME BusInv, NEW p \in Publishers, Deliver(p)
  PROVE  Stream!Answer \/ \E e \in Event : Stream!Tell(e)
<1>1. /\ holder = p /\ holder' = p /\ sending' = sending /\ open' = open
      /\ log' = Append(log, sending[p])
      /\ sending[p] \in Event /\ log \in Seq(Event)
  BY DEF BusInv, BusTypeOK, LockOK, Inside, InsidePlaces, Deliver, lockVars
<1>2. CASE at[p] = "listeners"
  <2>1. OwedNow = <<>>
    BY <1>1, <1>2, OwedAtHolder DEF Pays
  <2>2. at'[p] = "completion"
    BY <1>2 DEF Deliver, Goes, BusInv, BusTypeOK
  <2>3. OwedNow' = IF open /\ Owes(sending[p]) THEN <<FinalOf(sending[p])>> ELSE <<>>
    BY <1>1, <2>2, OwedAtHolderNext DEF Pays
  <2>4. Stream!Tell(sending[p])
    BY <1>1, <2>1, <2>3 DEF Stream!Tell, Stream!Owes, Stream!FinalOf, Owes, FinalOf,
      Stream!Collected, Collected, Stream!CollectedKinds, CollectedKinds
  <2> QED  BY <1>1, <2>4
<1>3. CASE at[p] = "nested"
  <2>1. sending[p].phase = "FINAL"
    BY <1>3 DEF BusInv, Answering
  <2>2. OwedNow = <<sending[p]>>
    BY <1>1, <1>3, <2>1, EventFacts, OwedAtHolder DEF Pays
  <2>3. OwedNow' = <<>>
    <3>1. at'[p] = "unwinding"
      BY <1>3 DEF Deliver, Goes, BusInv, BusTypeOK
    <3> QED  BY <1>1, <3>1, OwedAtHolderNext DEF Pays
  <2>4. log' = log \o OwedNow
    BY <1>1, <2>2, AppendIsConcat
  <2> QED  BY <1>1, <2>2, <2>3, <2>4 DEF Stream!Answer
<1> QED  BY <1>2, <1>3 DEF Deliver

\* The other steps of a publish leave the stream and what is owed as they are.
LEMMA PublishStutters ==
  ASSUME BusInv, NEW p \in Publishers,
         \/ Wake(p) \/ Complete(p) \/ Return(p)
         \/ \E e \in Event : Publish(p, e)
  PROVE  UNCHANGED <<log, OwedNow, open>>
<1>1. /\ at \in [Publishers -> Places] /\ sending \in [Publishers -> Event]
      /\ holder \in Publishers \cup {Nobody}
  BY DEF BusInv, BusTypeOK
<1>2. UNCHANGED <<log, open>>
  BY DEF Wake, Complete, Return, Publish, logVars
<1>3. \A q \in Publishers : holder = q <=> Inside(q)
  BY DEF BusInv, LockOK
<1>4. CASE Wake(p)
  <2>1. holder = Nobody /\ holder' = p /\ at'[p] = "listeners"
    BY <1>1, <1>4 DEF Wake, Goes
  <2>2. OwedNow = <<>> /\ OwedNow' = <<>>
    BY <2>1, OwedAtHolder, OwedAtHolderNext DEF Pays
  <2> QED  BY <1>2, <2>2
<1>5. CASE Return(p)
  <2>1. at[p] = "unwinding" /\ holder' = Nobody
    BY <1>5 DEF Return, Release
  <2>2. holder = p
    BY <1>3, <2>1 DEF Inside, InsidePlaces
  <2>3. OwedNow = <<>> /\ OwedNow' = <<>>
    BY <2>1, <2>2, OwedAtHolder, OwedAtHolderNext DEF Pays
  <2> QED  BY <1>2, <2>3
<1>6. CASE Complete(p)
  <2>1. at[p] = "completion" /\ holder = p
    BY <1>3, <1>6 DEF Complete, Inside, InsidePlaces
  <2>2. CASE open /\ Owes(sending[p])
    <3>1. OwedNow = <<FinalOf(sending[p])>>
      BY <2>1, <2>2, OwedAtHolder DEF Pays
    <3>2. Goes(p, "nested") /\ sending' = [sending EXCEPT ![p] = FinalOf(sending[p])]
          /\ holder' = p
      BY <1>6, <2>1, <2>2, Zenon DEF Complete
    <3>3. at'[p] = "nested" /\ sending'[p] = FinalOf(sending[p])
      BY <1>1, <3>2 DEF Goes
    <3>4. OwedNow' = <<FinalOf(FinalOf(sending[p]))>>
      BY <3>2, <3>3, OwedAtHolderNext DEF Pays
    <3>5. FinalOf(FinalOf(sending[p])) = FinalOf(sending[p])
      BY <1>1, EventFacts
    <3> QED  BY <1>2, <3>1, <3>4, <3>5
  <2>3. CASE ~(open /\ Owes(sending[p]))
    <3>1. holder' = Nobody
      BY <1>6, <2>3, Zenon DEF Complete, Release
    <3>2. OwedNow = <<>> /\ OwedNow' = <<>>
      BY <2>1, <2>3, <3>1, OwedAtHolder, OwedAtHolderNext DEF Pays
    <3> QED  BY <1>2, <3>2
  <2> QED  BY <2>2, <2>3
<1>7. ASSUME NEW e \in Event, Publish(p, e)
      PROVE  UNCHANGED <<log, OwedNow, open>>
  <2>1. at[p] = "out" /\ sending' = [sending EXCEPT ![p] = e]
    BY <1>7 DEF Publish
  <2>2. CASE Goes(p, "listeners") /\ holder' = p /\ holder = Nobody
    <3>1. at'[p] = "listeners"
      BY <1>1, <2>2 DEF Goes
    <3>2. OwedNow = <<>> /\ OwedNow' = <<>>
      BY <2>2, <3>1, OwedAtHolder, OwedAtHolderNext DEF Pays
    <3> QED  BY <1>2, <3>2
  <2>3. CASE Goes(p, "waiting") /\ holder' = holder
    <3>1. CASE holder = Nobody
      BY <1>2, <2>3, <3>1, OwedAtHolder, OwedAtHolderNext
    <3>2. ASSUME NEW q \in Publishers, holder = q
          PROVE  UNCHANGED OwedNow
      <4>1. q # p
        BY <1>3, <2>1, <3>2 DEF Inside, InsidePlaces
      <4>2. at'[q] = at[q] /\ sending'[q] = sending[q] /\ holder' = q
        BY <1>1, <2>1, <2>3, <3>2, <4>1 DEF Goes
      <4>3. Pays(q)' <=> Pays(q)
        BY <1>2, <4>2 DEF Pays
      <4> QED  BY <3>2, <4>2, <4>3, OwedAtHolder, OwedAtHolderNext
    <3> QED  BY <1>1, <1>2, <3>1, <3>2
  <2>4. \/ Goes(p, "listeners") /\ holder' = p /\ holder = Nobody
        \/ Goes(p, "waiting") /\ holder' = holder
    BY <1>7, Zenon DEF Publish, Free
  <2> QED  BY <2>2, <2>3, <2>4
<1> QED  BY <1>4, <1>5, <1>6, <1>7

\* Closing the channel drops what nobody has begun to deliver.
LEMMA CloseImplements ==
  ASSUME BusInv, Close
  PROVE  Stream!Close
<1>1. UNCHANGED <<log, at, sending, holder>> /\ open' = FALSE /\ open
      /\ holder \in Publishers \cup {Nobody}
  BY DEF Close, logVars, lockVars, BusInv, BusTypeOK
<1>2. CASE holder = Nobody
  BY <1>1, <1>2, OwedAtHolder, OwedAtHolderNext DEF Stream!Close
<1>3. ASSUME NEW p \in Publishers, holder = p
      PROVE  Stream!Close
  <2>1. /\ OwedNow = IF Pays(p) THEN <<FinalOf(sending[p])>> ELSE <<>>
        /\ OwedNow' = IF Pays(p)' THEN <<FinalOf(sending[p])>> ELSE <<>>
    BY <1>1, <1>3, OwedAtHolder, OwedAtHolderNext
  <2>2. Pays(p)' => Pays(p)
    BY <1>1 DEF Pays
  <2> QED  BY <1>1, <2>1, <2>2 DEF Stream!Close
<1> QED  BY <1>1, <1>2, <1>3

\* What nobody inside a publish sees.
LEMMA SubscriptionStutters ==
  ASSUME Subscribe \/ Unsubscribe \/ UNCHANGED busVars
  PROVE  UNCHANGED <<log, OwedNow, open>>
BY DEF Subscribe, Unsubscribe, busVars, lockVars, logVars, OwedNow

\* The channel of any number of publishers, waiting, raising, subscribing and
\* closing, is the abstract stream: the two-step answer of a publish and its
\* nested publish is atomic for every listener.
THEOREM BusImplementsStream == BusSpec => ImplementsStream
<1>1. BusInit => Stream!Init
  <2>1. BusInit => OwedNow = <<>>
    BY OwedAtHolder DEF BusInit
  <2> QED  BY <2>1 DEF BusInit, Stream!Init
<1>2. BusInv /\ [BusNext]_busVars => [Stream!Next]_<<log, OwedNow, open>>
  <2> SUFFICES ASSUME BusInv, [BusNext]_busVars
               PROVE  [Stream!Next]_<<log, OwedNow, open>>
    OBVIOUS
  <2>1. CASE Subscribe \/ Unsubscribe \/ UNCHANGED busVars
    BY <2>1, SubscriptionStutters
  <2>2. CASE Close
    BY <2>2, CloseImplements DEF Stream!Next
  <2>3. ASSUME NEW p \in Publishers, Publishes(p) \/ BusStep(p)
        PROVE  [Stream!Next]_<<log, OwedNow, open>>
    <3>1. CASE Deliver(p)
      <4>1. Stream!Event = Event
        BY DEF Stream!Event, Event, Stream!Phases, Phases, Stream!CollectedKinds,
          CollectedKinds, Stream!OtherKinds, OtherKinds
      <4> QED  BY <3>1, <4>1, DeliverImplements DEF Stream!Next
    <3>2. CASE ~Deliver(p)
      BY <2>3, <3>2, PublishStutters DEF Publishes, BusStep
    <3> QED  BY <3>1, <3>2
  <2> QED  BY <2>1, <2>2, <2>3 DEF BusNext
<1> QED  BY <1>1, <1>2, BusInvariant, PTL DEF BusSpec, ImplementsStream, Stream!Spec

=============================================================================
