-------------------------------- MODULE Events --------------------------------
(***************************************************************************)
(* The events of a run: RuntimeEvent and its subclasses, as far as their   *)
(* order, their chains and their collection go.                            *)
(***************************************************************************)
EXTENDS Naturals, Sequences

CONSTANTS
  Ids,     \* event ids, one per chain
  Tasks    \* the tasks events belong to

ASSUME IdsAndTasks == Ids # {} /\ Tasks # {}

Phases == {"STARTED", "IN_PROGRESS", "END", "FINAL"}

\* ResultCollector.listen_event_types and the filter at the head of collect:
\* an asynchronous compression ("ASYNC") and a frame change pass by.
CollectedKinds == {"INPUT", "MESSAGE", "INTERRUPTED"}
OtherKinds     == {"ASYNC", "FRAME"}

Event == [id : Ids, task : Tasks, kind : CollectedKinds \cup OtherKinds, phase : Phases]

\* An event that nobody reads: a publisher that is not publishing.
NoEvent == [id |-> CHOOSE i \in Ids : TRUE, task |-> CHOOSE t \in Tasks : TRUE,
            kind |-> "FRAME", phase |-> "FINAL"]

\* Only messages and compressions are chains; the other kinds are one FINAL.
IsChain(e)   == e.kind \in {"MESSAGE", "ASYNC"}

Collected(e) == e.kind \in CollectedKinds

\* finalize_outputs: the END of a chain the collector has collected.
Owes(e) == e.phase = "END" /\ Collected(e)

FinalOf(e) == [e EXCEPT !.phase = "FINAL"]
=============================================================================
