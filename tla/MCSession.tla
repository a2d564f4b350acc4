------------------------------ MODULE MCSession ------------------------------
(* Instances of SessionRuntime for TLC.                                      *)
EXTENDS SessionLedger, TLC

CONSTANTS a, b, c

NoHandoffs   == [x \in Agents |-> {}]
OneSubagent  == [x \in Agents |-> IF x = a THEN {b} ELSE {}]
Triangle     == [x \in Agents |-> CASE x = a -> {b, c} [] x = b -> {c} [] OTHER -> {b}]

\* The subagents of Triangle are interchangeable.
Subagents == Permutations({b, c})
=============================================================================
