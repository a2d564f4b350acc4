----------------------------- MODULE Selections -----------------------------
(* What a filter leaves of a list: [x for x in seq if x in S].               *)
EXTENDS SequencesExt

Keep(seq, S) ==
    FlattenSeq([k \in DOMAIN seq |-> IF seq[k] \in S THEN <<seq[k]>> ELSE <<>>])
=============================================================================
