----------------------------- MODULE MCWorkflow -----------------------------
(* Instances of Workflow for TLC. *)
EXTENDS Workflow, TLC

\* A question beside a choice that leads to a timer or past it.
Mixed == <<{{2, 3}}, {{5}}, {{4}, {5}}, {{5}}, {{}}>>
MixedKind == <<"work", "ask", "work", "timer", "work">>

\* Two questions side by side.
TwoAsks == <<{{2, 3}}, {{4}}, {{4}}, {{}}>>
TwoAsksKind == <<"work", "ask", "ask", "work">>

TwiceFirst == [n \in Nodes |-> IF n \in {1, 3} THEN 2 ELSE 1]
Once       == [n \in Nodes |-> 1]

NoFaults == [e \in Events |-> 0]
Faults   == [NoFaults EXCEPT !["crash"] = 1, !["fault"] = 2, !["denial"] = 1,
                             !["cancel"] = 1, !["blind"] = 1, !["early"] = 1, !["refire"] = 1]
=============================================================================
