----------------------------- MODULE EventStream -----------------------------
(***************************************************************************)
(* What the event bus promises to a listener of one channel: one stream of *)
(* events in which the END of a chain that the result collector follows is *)
(* answered at once by the FINAL of that chain, until the channel closes.  *)
(***************************************************************************)
EXTENDS Events

VARIABLES
  stream,      \* the events delivered so far
  owed,        \* the FINAL the collector owes: a sequence of at most one event
  open         \* is the channel open?

Init == stream = <<>> /\ owed = <<>> /\ open = TRUE

\* Somebody's event reaches the listeners; nothing may come between an END
\* and its FINAL.
Tell(e) ==
  /\ owed = <<>>
  /\ stream' = Append(stream, e)
  /\ owed' = IF open /\ Owes(e) THEN <<FinalOf(e)>> ELSE <<>>
  /\ UNCHANGED open

Answer ==
  /\ owed # <<>>
  /\ stream' = stream \o owed
  /\ owed' = <<>>
  /\ UNCHANGED open

\* The channel closes, before or after the collector has begun its answer.
Close ==
  /\ open' = FALSE
  /\ owed' \in {owed, <<>>}
  /\ UNCHANGED stream

Next == Answer \/ Close \/ \E e \in Event : Tell(e)

Spec == Init /\ [][Next]_<<stream, owed, open>>
=============================================================================
