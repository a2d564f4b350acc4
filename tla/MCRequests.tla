----------------------------- MODULE MCRequests -----------------------------
(* Instances of ServerRequests for TLC: the response "r" answers the first   *)
(* request of the session.                                                   *)
EXTENDS ServerRequests

NoneAnswered  == <<>>
FirstAnswered == [m \in {"r"} |-> 1]
=============================================================================
