------------------------------ MODULE Traversal ------------------------------
(***************************************************************************)
(* What executing a workflow graph means: from the start, nodes are done   *)
(* once each, a node only after one that routed to it, and the workflow is *)
(* finished when every node routed to is done.  It may be given up before. *)
(* A workflow that is over may be executed again, from the start.          *)
(***************************************************************************)
CONSTANTS Nodes, Start, Routes
VARIABLES done, route, outcome
vars == <<done, route, outcome>>

Init ==
  /\ done = {} /\ outcome = "open"
  /\ route = [n \in Nodes |-> {}]

Reached(n) == n = Start \/ \E m \in done : n \in route[m]

\* The nodes of D, perhaps the last before the rest is given up.
Visit(D) ==
  /\ outcome # "finished" /\ D # {} /\ D \cap done = {} /\ \A n \in D : Reached(n)
  /\ done' = done \cup D
  /\ route' \in [Nodes -> SUBSET Nodes]
  /\ \A n \in Nodes : IF n \in D THEN route'[n] \in Routes[n] ELSE route'[n] = route[n]
  /\ outcome' \in {"open", "abandoned"}

Finish ==
  /\ outcome = "open" /\ \A n \in Nodes : Reached(n) => n \in done
  /\ outcome' = "finished"
  /\ UNCHANGED <<done, route>>

GiveUp ==
  /\ outcome = "open" /\ outcome' = "abandoned"
  /\ UNCHANGED <<done, route>>

Restart ==
  /\ outcome # "open"
  /\ Init'

Next == (\E D \in SUBSET Nodes : Visit(D)) \/ Finish \/ GiveUp \/ Restart

Spec == Init /\ [][Next]_vars
=============================================================================
