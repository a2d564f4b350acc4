------------------------------ MODULE MCStream ------------------------------
(* Instances of MessageStream for TLC.                                       *)
EXTENDS MessageStream

\* A first choice with room for a marker and a token on either side of it, a second
\* for one token, which may be held as well.
TextPerChoice == [c \in Indexes |-> IF c = 0 THEN 3 ELSE 1]
=============================================================================
