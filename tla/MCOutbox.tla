------------------------------ MODULE MCOutbox ------------------------------
(* Instances of Outbox for TLC. *)
EXTENDS Outbox, TLC

CONSTANTS w1, w2

MCOwnerOf == [w \in Workers |-> w]

\* Items 1 and 2 are replies, item 3 is of another topic.
MCTopicOf == [i \in Items |-> IF i = 3 THEN "other" ELSE "intent"]

OneOfEach == [crash |-> 1, stall |-> 1, refusal |-> 1]

Symmetry == Permutations(Workers)
=============================================================================
