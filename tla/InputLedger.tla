----------------------------- MODULE InputLedger -----------------------------
(***************************************************************************)
(* What the store promises about the inputs of a session, whatever happens *)
(* to the process that works on them: an input waits, is worked on, may be *)
(* paused and woken, and is done; it is taken in the order of arrival, it  *)
(* never goes back to waiting, and what is done stays done.  Inputs are    *)
(* numbered in the order of arrival.                                       *)
(***************************************************************************)
EXTENDS Integers

VARIABLES
  waiting,   \* inputs in the durable queue
  active,    \* inputs held by a task that is not paused
  paused,    \* inputs held by a paused task
  done,      \* inputs whose exchange is in the history
  open       \* a run has stored its first checkpoint and is not over

vars == <<waiting, active, paused, done, open>>

Seen == waiting \cup active \cup paused \cup done

IsNext(i) == i \in waiting /\ \A j \in waiting : i <= j

\* At most one input arrives in a step, after all those in sight.
Arrives(W) == (\A i, k \in W : i = k) /\ \A i \in W, j \in Seen : i > j

Init == waiting = {} /\ active = {} /\ paused = {} /\ done = {} /\ open = FALSE

\* A run begins: it may drop what the last one left, and may bring an input.  If
\* it fails at once, one of the tasks it found is paused and the input is lost.
OpenRun ==
  /\ ~open /\ open'
  /\ Arrives(waiting' \ waiting)
  /\ active' \subseteq active
  /\ paused' \subseteq paused \cup active
  /\ paused' \cap active' = {}
  /\ \/ paused' \subseteq paused
     \/ waiting' \subseteq waiting /\ \E i \in active : paused' \ paused = {i}
  /\ UNCHANGED done

\* The next input starts a task.
Take ==
  \E i \in waiting :
    /\ open /\ UNCHANGED open
    /\ IsNext(i)
    /\ waiting' = waiting \ {i}
    /\ active' = active \cup {i}
    /\ UNCHANGED <<paused, done>>

\* The next input is a response: it wakes the paused task that awaits it, if any.
Wake ==
  \E i \in waiting :
    /\ open /\ UNCHANGED open
    /\ IsNext(i)
    /\ waiting' = waiting \ {i}
    /\ \/ UNCHANGED <<active, paused>>
       \/ \E p \in paused : paused' = paused \ {p} /\ active' = active \cup {p}
    /\ UNCHANGED done

Pause ==
  \E i \in active :
    /\ open /\ UNCHANGED open
    /\ active' = active \ {i}
    /\ paused' = paused \cup {i}
    /\ UNCHANGED <<waiting, done>>

\* A task queues a further input.
Push ==
  /\ open /\ UNCHANGED open
  /\ waiting \subseteq waiting'
  /\ Arrives(waiting' \ waiting)
  /\ UNCHANGED <<active, paused, done>>

\* A task is done; a change of control queues the input that wakes the next agent.
Close ==
  \E i \in active :
    /\ open /\ UNCHANGED open
    /\ active' = active \ {i}
    /\ done' = done \cup {i}
    /\ waiting \subseteq waiting' /\ Arrives(waiting' \ waiting)
    /\ UNCHANGED paused

\* A run ends: nothing waits any more and work may be dropped; what is paused or
\* done stays.
CloseRun ==
  /\ open /\ ~open'
  /\ waiting' = {}
  /\ active' \subseteq active
  /\ UNCHANGED <<paused, done>>

\* The run is abandoned: nothing in the store changes.
Abandon == open /\ ~open' /\ UNCHANGED <<waiting, active, paused, done>>

Next == OpenRun \/ Take \/ Wake \/ Pause \/ Push \/ Close \/ CloseRun \/ Abandon

Spec == Init /\ [][Next]_vars
=============================================================================
