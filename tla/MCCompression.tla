--------------------------- MODULE MCCompression ---------------------------
(* The history and its compression on small instances. *)
EXTENDS HistoryCompression
CONSTANTS triage, billing
OneAgent  == {triage}
TwoAgents == {triage, billing}
=============================================================================
