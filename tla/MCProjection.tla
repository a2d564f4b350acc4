----------------------------- MODULE MCProjection -----------------------------
(* Instances of HistoryProjection for TLC.                                   *)
EXTENDS HistoryProjection, TLC

CONSTANTS main, sub, aide

\* The subagents are interchangeable.
Subagents == Permutations({sub, aide})
=============================================================================
