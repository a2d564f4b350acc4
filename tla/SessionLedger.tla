--------------------------- MODULE SessionLedger ---------------------------
(* The stored session of SessionRuntime implements InputLedger.             *)
EXTENDS SessionRuntime

IdsOf(S) == {Id(t) : t \in S}

Ledger == INSTANCE InputLedger WITH
  waiting <- Queued(stored),
  active  <- IdsOf({t \in stored.tasks : t.status # "PAUSED"}),
  paused  <- IdsOf({t \in stored.tasks : t.status = "PAUSED"}),
  done    <- Done(stored),
  open    <- pc \in {"loop", "saving", "finishing"}

\* What the store shows after any crash, rollback or restart is a step of the
\* ledger: inputs are taken in order and once, a paused task is woken only by an
\* input that was queued, what is done is never undone.
ImplementsLedger == Ledger!Spec
=============================================================================
